---- MODULE Spec2Model ----
(***************************************************************************)
(* State-machine model of the semantic-search service: the model manager   *)
(* (train / persist / load of the bundle {TF-IDF vectorizer, FAISS index,  *)
(* embeddings, metadata}), the GCS mirror, system initialisation and the   *)
(* request gate, the search service's locking, and the S3 backup service.  *)
(***************************************************************************)
EXTENDS Integers, Sequences, FiniteSets, TLC

\* ------------------------------------------------------------------ bounds
MaxRuns == 2        \* training attempts per behaviour
MaxCorpus == 2      \* largest len(texts)
MaxFeatures == 1    \* largest fitted vocabulary size
MaxRestarts == 1    \* process restarts per behaviour
NumRequests == 1    \* concurrent request workers

Requests == 1..NumRequests

\* --------------------------------------------------------- artifact values
\* An in-memory artifact is identified by the training run that produced it,
\* its row count (ntotal / shape[0] / num_texts / fitted documents) and, for
\* the vectorizer, its vocabulary size.  run = 0 is Python's None / {}.
Art(run, n, feat) == [run |-> run, n |-> n, feat |-> feat]
NoArt == Art(0, 0, 0)

\* A file is absent, truncated (opened for writing, not completely written)
\* or holds the complete serialisation of an artifact.
FileOf(a) == [st |-> "full", run |-> a.run, n |-> a.n, feat |-> a.feat]
Absent == [st |-> "absent", run |-> 0, n |-> 0, feat |-> 0]
Truncated == [st |-> "partial", run |-> 0, n |-> 0, feat |-> 0]
ArtOf(f) == Art(f.run, f.n, f.feat)

\* config.TFIDF_MODEL_PATH, FAISS_INDEX_PATH, its .npy twin, METADATA_PATH
TFIDF_MODEL_PATH == "tfidf_model.pkl"
FAISS_INDEX_PATH == "faiss_index.bin"
EMBEDDINGS_PATH == "faiss_index.npy"
METADATA_PATH == "metadata.json"
required_files == <<TFIDF_MODEL_PATH, FAISS_INDEX_PATH, EMBEDDINGS_PATH, METADATA_PATH>>
FileSet == {required_files[i] : i \in 1..4}

\* restore_latest writes the embeddings under this name
RESTORED_EMBEDDINGS_PATH == "embeddings.npy"
restore_files == <<TFIDF_MODEL_PATH, FAISS_INDEX_PATH, RESTORED_EMBEDDINGS_PATH, METADATA_PATH>>
LocalNames == FileSet \cup {RESTORED_EMBEDDINGS_PATH}

VARIABLES
  use_model,      \* ModelManager.use_model is not None
  mem,            \* ModelManager.{tfidf_vectorizer, faiss_index, embeddings, metadata}
  model_lock,     \* ModelManager.model_lock: "free" or its holder
  search_lock,    \* SearchService.search_lock: 0 or the request holding it
  disk,           \* files of config.MODELS_DIR
  gcs_available,  \* ModelManager.gcs_storage is usable
  remote,         \* blobs under the GCS prefix
  listings,       \* len(data_service.listings); 0 before load_data
  tfidf_matrix,   \* SearchService.tfidf_matrix
  system_ready,   \* deps.system_ready
  initPc,         \* position of initialize_system
  models_loaded,  \* initialize_system's local models_loaded
  trainPc,        \* position of initialize_models
  trainCaller,    \* who called initialize_models: "init" / "retrain" / "none"
  trainRun,       \* identity of the bundle being built
  trainTexts,     \* len(texts) of the running initialize_models
  runCount,       \* training attempts so far
  memBefore,      \* mem when the running/last initialize_models was entered
  trainResult,    \* how the last initialize_models ended
  retrainResp,    \* last response of POST /admin/retrain
  req,            \* per worker: the request being handled
  restarts,       \* process restarts so far
  lastLoad,       \* last load_models: what it saw and what it returned
  mutPc,          \* position of a listing mutation endpoint
  s3_backup,      \* ModelManager.s3_backup is usable (root application)
  s3,             \* objects of the S3 bucket
  pointer,        \* models/latest_backup.json: the stamp it names, <<>> if none
  now,            \* the last timestamp handed out by datetime.now()
  restorePc,      \* position of POST /api/admin/restore-models
  restoreResp,    \* its last response
  ds,             \* DataService: listings, the dataset file, data_hash, metadata
  worker,         \* per server thread: the dataset mutation it is executing
  lastOp,         \* the last DataService call: operation, argument, outcome
  call,           \* the last SearchService call: method and arguments
  ret             \* what that call returned

vars == <<use_model, mem, model_lock, search_lock, disk, gcs_available, remote,
          listings, tfidf_matrix, system_ready, initPc, models_loaded,
          trainPc, trainCaller, trainRun, trainTexts, runCount, memBefore,
          trainResult, retrainResp, req, restarts, lastLoad, mutPc,
          s3_backup, s3, pointer, now, restorePc, restoreResp,
          ds, worker, lastOp, call, ret>>

\* the model manager, the request workers, start-up and the backup service
SystemVars == <<use_model, mem, model_lock, search_lock, disk, gcs_available,
                remote, listings, tfidf_matrix, system_ready, initPc,
                models_loaded, trainPc, trainCaller, trainRun, trainTexts,
                runCount, memBefore, trainResult, retrainResp, req, restarts,
                lastLoad, mutPc, s3_backup, s3, pointer, now, restorePc,
                restoreResp>>

\* the listing store and the search functions in detail
ServiceVars == <<ds, worker, lastOp, call, ret>>

S3Vars == <<s3_backup, s3, pointer, now, restorePc, restoreResp>>

NoBundle == [tfidf_vectorizer |-> NoArt, faiss_index |-> NoArt,
             embeddings |-> NoArt, metadata |-> NoArt]

IdleReq == [pc |-> "idle", kind |-> "none", gate |-> FALSE, code |-> 0,
            invoked |-> FALSE, res |-> "none", start |-> NoBundle,
            sem |-> NoArt, kwModel |-> NoArt, kwMatrix |-> NoArt]

NoLoad == [called |-> FALSE, result |-> FALSE, localBefore |-> FALSE,
           remoteFailed |-> FALSE, readFault |-> FALSE, memBefore |-> NoBundle]

\* ModelManager.__init__ and the module globals: nothing loaded, not ready.
ProcessStart ==
  /\ use_model = FALSE
  /\ mem = NoBundle
  /\ model_lock = "free"
  /\ search_lock = 0
  /\ listings = 0
  /\ tfidf_matrix = NoArt
  /\ system_ready = FALSE
  /\ initPc = "start"
  /\ models_loaded = FALSE
  /\ trainPc = "idle"
  /\ trainCaller = "none"
  /\ trainRun = 0
  /\ trainTexts = 0
  /\ memBefore = NoBundle
  /\ trainResult = "none"
  /\ retrainResp = "none"
  /\ req = [r \in Requests |-> IdleReq]
  /\ lastLoad = NoLoad
  /\ mutPc = "idle"

\* A fresh deployment: empty models directory, empty bucket(s).
Fresh ==
  /\ ProcessStart
  /\ disk = [f \in LocalNames |-> Absent]
  /\ remote = [f \in FileSet |-> Absent]
  /\ runCount = 0
  /\ restarts = 0
  /\ s3 = {}
  /\ pointer = <<>>
  /\ now = <<1, 0>>
  /\ restorePc = "idle"
  /\ restoreResp = "none"

\* ------------------------------------------------ services at rest
\* DataService.__init__: no listings, no hash, empty metadata
NoData == [listings |-> <<>>, file |-> <<>>, data_hash |-> <<>>,
           metadata |-> [sectors |-> {}, tags |-> {}]]

\* a JSON field that is not there, and one that is null
AbsentField == <<"<absent>">>
NullField == <<"<null>">>
NoId == [t |-> "absent", v |-> 0]
NoTags == [t |-> "absent", items |-> <<>>]
NoListing == [id |-> NoId, title |-> AbsentField, sector |-> AbsentField,
              location |-> AbsentField, tags |-> NoTags]

NumWorkers == 2    \* server threads mutating the dataset (threaded=True)
Workers == 1..NumWorkers

IdleWorker == [pc |-> "idle", op |-> "none", arg |-> NoListing, id |-> 0,
               local |-> <<>>, before |-> 0, raised |-> FALSE]
NoOp == [op |-> "none", arg |-> NoListing, id |-> 0, raised |-> FALSE,
         error |-> "none"]
NoCall == [method |-> "none"]
NoRet == [raised |-> FALSE, results |-> <<>>]

\* the listing store and the search functions are not exercised
ServiceIdle ==
  /\ ds = NoData
  /\ worker = [w \in Workers |-> IdleWorker]
  /\ lastOp = NoOp
  /\ call = NoCall
  /\ ret = NoRet

\* backend deployment: STORAGE_TYPE gcs (bucket reachable or not) or local
Init ==
  /\ Fresh
  /\ gcs_available \in BOOLEAN
  /\ ServiceIdle
  /\ s3_backup = FALSE

\* local storage only
InitLocal ==
  /\ Fresh
  /\ gcs_available = FALSE
  /\ ServiceIdle
  /\ s3_backup = FALSE

\* root application with USE_S3 and a reachable bucket
InitS3 ==
  /\ Fresh
  /\ gcs_available = FALSE
  /\ ServiceIdle
  /\ s3_backup = TRUE

\* ------------------------------------------------ ModelManager.initialize_models
\* The variables only the trainer's control flow touches.
TrainData == <<use_model, mem, disk, remote>>
NotTrain == <<search_lock, gcs_available, listings, tfidf_matrix, models_loaded,
              runCount, req, restarts, lastLoad, mutPc>>
NotTrainS3 == <<s3_backup, s3, pointer, now, restorePc, restoreResp>>

\* a raise that leaves model_lock held, as an acquire() without try/finally
TrainRaise_keeps_lock(result) ==
  /\ model_lock' = model_lock
  /\ trainPc' = "idle"
  /\ trainCaller' = "none"
  /\ trainResult' = result
  /\ IF trainCaller = "init"
       THEN /\ initPc' = "failed"
            /\ system_ready' = FALSE
            /\ retrainResp' = retrainResp
       ELSE /\ retrainResp' = "error"
            /\ UNCHANGED <<initPc, system_ready>>
  /\ UNCHANGED <<trainRun, trainTexts, memBefore>>

\* `raise` out of initialize_models: the with-block releases model_lock and the
\* exception reaches the caller (initialize_system's except, or retrain's).
TrainRaise(result) ==
  /\ model_lock' = "free"
  /\ trainPc' = "idle"
  /\ trainCaller' = "none"
  /\ trainResult' = result
  /\ IF trainCaller = "init"
       THEN /\ initPc' = "failed"
            /\ system_ready' = FALSE
            /\ retrainResp' = retrainResp
       ELSE /\ retrainResp' = "error"
            /\ UNCHANGED <<initPc, system_ready>>
  /\ UNCHANGED <<trainRun, trainTexts, memBefore>>

TrainGoto(pc) ==
  /\ trainPc' = pc
  /\ UNCHANGED <<model_lock, trainCaller, trainResult, initPc, system_ready,
                 retrainResp, trainRun, trainTexts, memBefore>>

\* with self.model_lock:
initialize_models_lock ==
  /\ trainPc = "lock"
  /\ UNCHANGED ServiceVars
  /\ model_lock = "free"
  /\ model_lock' = "train"
  /\ trainPc' = "use"
  /\ memBefore' = mem
  /\ UNCHANGED <<trainCaller, trainResult, initPc, system_ready, retrainResp,
                 trainRun, trainTexts>>
  /\ UNCHANGED TrainData
  /\ UNCHANGED NotTrain
  /\ UNCHANGED NotTrainS3

\* 1. hub.load unless the encoder is already in memory
initialize_models_use ==
  /\ trainPc = "use"
  /\ UNCHANGED ServiceVars
  /\ \E ok \in BOOLEAN :
       IF use_model \/ ok
         THEN /\ use_model' = TRUE
              /\ TrainGoto("embed")
         ELSE /\ use_model' = use_model
              /\ TrainRaise("fail_use")
  /\ UNCHANGED <<mem, disk, remote>>
  /\ UNCHANGED NotTrain
  /\ UNCHANGED NotTrainS3

\* 2. self.embeddings = self.use_model(texts)...; normalize_L2
initialize_models_embed ==
  /\ trainPc = "embed"
  /\ UNCHANGED ServiceVars
  /\ \E ok \in BOOLEAN :
       IF ok
         THEN /\ mem' = [mem EXCEPT !.embeddings = Art(trainRun, trainTexts, 0)]
              /\ TrainGoto("index")
         ELSE /\ mem' = mem
              /\ TrainRaise("fail_embed")
  /\ UNCHANGED <<use_model, disk, remote>>
  /\ UNCHANGED NotTrain
  /\ UNCHANGED NotTrainS3

\* 3. self.faiss_index = IndexFlatIP(dimension); self.faiss_index.add(embeddings)
initialize_models_index ==
  /\ trainPc = "index"
  /\ UNCHANGED ServiceVars
  /\ \E outcome \in {"ok", "fail_ctor", "fail_add"} :
       CASE outcome = "ok" ->
              /\ mem' = [mem EXCEPT !.faiss_index = Art(trainRun, mem.embeddings.n, 0)]
              /\ TrainGoto("fit")
         [] outcome = "fail_ctor" ->
              /\ mem' = mem
              /\ TrainRaise("fail_index")
         [] outcome = "fail_add" ->
              /\ mem' = [mem EXCEPT !.faiss_index = Art(trainRun, 0, 0)]
              /\ TrainRaise("fail_index")
  /\ UNCHANGED <<use_model, disk, remote>>
  /\ UNCHANGED NotTrain
  /\ UNCHANGED NotTrainS3

\* 4. self.tfidf_vectorizer = TfidfVectorizer(...); self.tfidf_vectorizer.fit(texts)
\* A failed fit leaves the new, unfitted vectorizer in the field.
initialize_models_fit ==
  /\ trainPc = "fit"
  /\ UNCHANGED ServiceVars
  /\ \/ \E feat \in 1..MaxFeatures :
          /\ mem' = [mem EXCEPT !.tfidf_vectorizer = Art(trainRun, trainTexts, feat)]
          /\ TrainGoto("save_tfidf")
     \/ /\ mem' = [mem EXCEPT !.tfidf_vectorizer = Art(trainRun, 0, 0)]
        /\ TrainRaise("fail_fit")
  /\ UNCHANGED <<use_model, disk, remote>>
  /\ UNCHANGED NotTrain
  /\ UNCHANGED NotTrainS3

\* ------------------------------------------ ModelManager._save_models_locally
\* open(path, 'wb') truncates the canonical file, then the serialiser writes
\* into it: a failure of the open leaves the file as it was, a failure after
\* the open leaves a truncated file under the canonical name.
WriteOutcomes == {"ok", "fail_open", "fail_write"}

WriteFile(d, path, art, outcome) ==
  CASE outcome = "ok" -> [d EXCEPT ![path] = FileOf(art)]
    [] outcome = "fail_open" -> d
    [] outcome = "fail_write" -> [d EXCEPT ![path] = Truncated]

save_models_locally_step(pc, path, art, nextPc) ==
  /\ trainPc = pc
  /\ \E outcome \in WriteOutcomes :
       /\ disk' = WriteFile(disk, path, art, outcome)
       /\ IF outcome = "ok" THEN TrainGoto(nextPc) ELSE TrainRaise("fail_save")

save_models_locally_tfidf ==
  /\ save_models_locally_step("save_tfidf", TFIDF_MODEL_PATH, mem.tfidf_vectorizer, "save_faiss")
  /\ UNCHANGED ServiceVars
  /\ UNCHANGED <<use_model, mem, remote>>
  /\ UNCHANGED NotTrain
  /\ UNCHANGED NotTrainS3

save_models_locally_faiss ==
  /\ save_models_locally_step("save_faiss", FAISS_INDEX_PATH, mem.faiss_index, "save_emb")
  /\ UNCHANGED ServiceVars
  /\ UNCHANGED <<use_model, mem, remote>>
  /\ UNCHANGED NotTrain
  /\ UNCHANGED NotTrainS3

save_models_locally_embeddings ==
  /\ save_models_locally_step("save_emb", EMBEDDINGS_PATH, mem.embeddings, "save_meta")
  /\ UNCHANGED ServiceVars
  /\ UNCHANGED <<use_model, mem, remote>>
  /\ UNCHANGED NotTrain
  /\ UNCHANGED NotTrainS3

\* self.metadata.update({'num_texts': len(texts), ...}) precedes the write
save_models_locally_metadata ==
  /\ mem' = [mem EXCEPT !.metadata = Art(trainRun, trainTexts, 0)]
  /\ UNCHANGED ServiceVars
  /\ save_models_locally_step("save_meta", METADATA_PATH, mem'.metadata, "upload")
  /\ UNCHANGED <<use_model, remote>>
  /\ UNCHANGED NotTrain
  /\ UNCHANGED NotTrainS3

\* ------------------------------------------- GCSStorageService.upload_models
\* Every local file is uploaded on its own; a failed _upload_blob is logged
\* and skipped.  uploaded is the set of files whose upload succeeded.
upload_models(r, d, uploaded) ==
  [f \in FileSet |-> IF f \in uploaded /\ d[f].st # "absent" THEN d[f] ELSE r[f]]

upload_models_result(d, uploaded) ==
  Cardinality({f \in uploaded : d[f].st # "absent"}) > 0

\* a train that fails when upload_models returns False
upload_outcome_strict(uploaded_ok) == IF uploaded_ok THEN "ok" ELSE "fail_upload"

\* "if self.gcs_storage.upload_models(...)": both branches only log, and
\* initialize_models returns normally
upload_outcome(uploaded_ok) == "ok"

\* 6. upload to GCS if enabled, then leave the with-block and return
initialize_models_upload ==
  /\ trainPc = "upload"
  /\ UNCHANGED ServiceVars
  /\ ~s3_backup
  /\ IF gcs_available
       THEN \E uploaded \in SUBSET FileSet :
              /\ remote' = upload_models(remote, disk, uploaded)
              /\ trainResult' = upload_outcome(upload_models_result(disk, uploaded))
       ELSE /\ remote' = remote
            /\ trainResult' = "ok"
  /\ model_lock' = "free"
  /\ trainPc' = "idle"
  /\ trainCaller' = "none"
  /\ IF trainCaller = "init"
       THEN /\ initPc' = "search"
            /\ retrainResp' = retrainResp
       ELSE /\ retrainResp' = "success"
            /\ initPc' = initPc
  /\ UNCHANGED <<system_ready, trainRun, trainTexts, memBefore>>
  /\ UNCHANGED <<use_model, mem, disk>>
  /\ UNCHANGED NotTrain
  /\ UNCHANGED NotTrainS3

\* ----------------------------------------- GCSStorageService.download_models
models_exist(r) == \A f \in FileSet : r[f].st # "absent"

\* _download_blob writes straight to the canonical local path.  A blob that
\* does not exist fails without touching the local file; a size mismatch or
\* an exception removes the local file.  failed is the set of blobs whose
\* download is hit by a mismatch or an exception.
download_blob_failed(r, failed) == {f \in FileSet : r[f].st = "absent" \/ f \in failed}

download_blob(d, r, failed) ==
  [f \in DOMAIN d |-> IF f \notin FileSet \/ r[f].st = "absent" THEN d[f]
                      ELSE IF f \in failed THEN Absent
                      ELSE r[f]]

download_models_result(r, failed) == download_blob_failed(r, failed) = {}

\* after the loop: a partial failure unlinks every file downloaded in this call
download_models(d, r, failed) ==
  LET d1 == download_blob(d, r, failed)
      downloaded == FileSet \ download_blob_failed(r, failed)
  IN IF download_models_result(r, failed) \/ downloaded = {}
       THEN d1
       ELSE [f \in DOMAIN d |-> IF f \in downloaded THEN Absent ELSE d1[f]]

\* ------------------------------------------------- ModelManager load helpers
models_exist_locally(d) == \A f \in FileSet : d[f].st # "absent"

\* the first k files of required_files can be deserialised
Readable(d, k) == \A i \in 1..k : d[required_files[i]].st = "full"

\* a load that reads the metadata file and does not keep what it read
load_models_locally_keeps_metadata(m, d, k) ==
  [tfidf_vectorizer |-> IF k >= 1 THEN ArtOf(d[TFIDF_MODEL_PATH]) ELSE m.tfidf_vectorizer,
   faiss_index      |-> IF k >= 2 THEN ArtOf(d[FAISS_INDEX_PATH]) ELSE m.faiss_index,
   embeddings       |-> IF k >= 3 THEN ArtOf(d[EMBEDDINGS_PATH]) ELSE m.embeddings,
   metadata         |-> m.metadata]

\* _load_models_locally assigns each field as soon as its file is read; k is
\* the number of files read before an exception (4: none) ends the load.
load_models_locally(m, d, k) ==
  [tfidf_vectorizer |-> IF k >= 1 THEN ArtOf(d[TFIDF_MODEL_PATH]) ELSE m.tfidf_vectorizer,
   faiss_index      |-> IF k >= 2 THEN ArtOf(d[FAISS_INDEX_PATH]) ELSE m.faiss_index,
   embeddings       |-> IF k >= 3 THEN ArtOf(d[EMBEDDINGS_PATH]) ELSE m.embeddings,
   metadata         |-> IF k >= 4 THEN ArtOf(d[METADATA_PATH]) ELSE m.metadata]

load_models_locally_result(k) == k = 4

\* -------------------------------------------------------- ModelManager.load_models
\* Strategy 1 (GCS download, then local load), strategy 2 (local cache),
\* else False.  Returns the record of everything the call decides.
load_models(m, d, r, gcs, failed, useOk, k) ==
  LET tryRemote == gcs /\ models_exist(r)
      d1 == IF tryRemote THEN download_models(d, r, failed) ELSE d
      downloaded == tryRemote /\ download_models_result(r, failed)
      doLocal == downloaded \/ models_exist_locally(d1)
      reads == doLocal /\ useOk
  IN [disk   |-> d1,
      mem    |-> IF reads THEN load_models_locally(m, d1, k) ELSE m,
      use    |-> reads,
      result |-> reads /\ load_models_locally_result(k),
      remoteFailed |-> tryRemote /\ ~downloaded,
      readFault |-> doLocal /\ ~(reads /\ load_models_locally_result(k))]

\* a complete, readable set of local artifact files
CompleteLocal(d) == \A f \in FileSet : d[f].st = "full"

\* ------------------------------------------------------ initialize_system
InitUnchanged == <<search_lock, gcs_available, remote, trainResult, retrainResp,
                   req, restarts, memBefore, mutPc,
                   s3_backup, s3, pointer, now, restorePc, restoreResp>>

\* Step 2: data_service.load_data()
initialize_system_data ==
  /\ initPc = "start"
  /\ UNCHANGED ServiceVars
  /\ \/ \E n \in 1..MaxCorpus :
          /\ listings' = n
          /\ initPc' = "load"
          /\ system_ready' = system_ready
     \/ /\ listings' = listings
        /\ initPc' = "failed"
        /\ system_ready' = FALSE
  /\ UNCHANGED <<use_model, mem, model_lock, disk, tfidf_matrix, models_loaded,
                 trainPc, trainCaller, trainRun, trainTexts, runCount, lastLoad>>
  /\ UNCHANGED InitUnchanged

\* Step 3: models_loaded = model_manager.load_models()
initialize_system_load ==
  /\ initPc = "load"
  /\ UNCHANGED ServiceVars
  /\ model_lock = "free"
  /\ \E failed \in SUBSET FileSet, useOk \in BOOLEAN, k \in 0..4 :
       LET res == load_models(mem, disk, remote, gcs_available, failed, useOk, k)
       IN /\ Readable(res.disk, k)
          /\ (~(gcs_available /\ models_exist(remote))) => failed = {}
          /\ ~res.use => k = 0
          /\ disk' = res.disk
          /\ mem' = res.mem
          /\ use_model' = (use_model \/ res.use)
          /\ models_loaded' = res.result
          /\ lastLoad' = [called |-> TRUE, result |-> res.result,
                          localBefore |-> CompleteLocal(disk),
                          remoteFailed |-> res.remoteFailed,
                          readFault |-> res.readFault, memBefore |-> mem]
          /\ initPc' = IF res.result THEN "search" ELSE "train"
  /\ UNCHANGED <<model_lock, listings, tfidf_matrix, system_ready,
                 trainPc, trainCaller, trainRun, trainTexts, runCount>>
  /\ UNCHANGED InitUnchanged

\* if not models_loaded: model_manager.initialize_models(data_service.get_all_texts())
initialize_system_train ==
  /\ initPc = "train"
  /\ UNCHANGED ServiceVars
  /\ runCount < MaxRuns
  /\ initPc' = "training"
  /\ trainPc' = "lock"
  /\ trainCaller' = "init"
  /\ trainRun' = runCount + 1
  /\ runCount' = runCount + 1
  /\ trainTexts' = listings
  /\ UNCHANGED <<use_model, mem, model_lock, disk, listings, tfidf_matrix,
                 system_ready, models_loaded, lastLoad>>
  /\ UNCHANGED InitUnchanged

\* SearchService._build_tfidf_matrix: transform the listings' texts with the
\* vectorizer currently in the manager (nothing is built when it is None)
build_tfidf_matrix(m, n, old) ==
  IF m.tfidf_vectorizer.run # 0
    THEN Art(m.tfidf_vectorizer.run, n, m.tfidf_vectorizer.feat)
    ELSE old

\* Steps 4-5: SearchService(...), init_routes, set_system_state(ready=True)
initialize_system_ready ==
  /\ initPc = "search"
  /\ UNCHANGED ServiceVars
  /\ model_lock = "free"
  /\ tfidf_matrix' = build_tfidf_matrix(mem, listings, tfidf_matrix)
  /\ system_ready' = TRUE
  /\ initPc' = "ready"
  /\ UNCHANGED <<use_model, mem, model_lock, disk, listings, models_loaded,
                 trainPc, trainCaller, trainRun, trainTexts, runCount, lastLoad>>
  /\ UNCHANGED InitUnchanged

\* ------------------------------------------------------- request handlers
ReqUnchanged == <<use_model, mem, disk, gcs_available, remote, listings,
                  tfidf_matrix, system_ready, initPc, models_loaded, trainPc,
                  trainCaller, trainRun, trainTexts, runCount, memBefore,
                  trainResult, retrainResp, restarts, lastLoad, mutPc,
                  s3_backup, s3, pointer, now, restorePc, restoreResp>>

Kinds == {"search", "recommend", "autocomplete"}

\* a wrapper that lets every request through, whatever system_ready is
require_ready_open(ready) == TRUE

\* deps.require_ready: the wrapped endpoint runs only when system_ready
require_ready(ready) == ready

FirstPc(kind) ==
  CASE kind = "search" -> "s_lock"
    [] kind = "recommend" -> "rec"
    [] kind = "autocomplete" -> "auto"

\* A request reaches its endpoint: the require_ready wrapper answers 503 or
\* lets the endpoint run; search answers 400 on an empty q.
request_arrive(r) ==
  /\ req[r].pc = "idle"
  /\ UNCHANGED ServiceVars
  /\ \E kind \in Kinds, emptyQ \in BOOLEAN :
       /\ (kind # "search") => ~emptyQ
       /\ req' = [req EXCEPT ![r] =
            IF ~require_ready(system_ready)
              THEN [IdleReq EXCEPT !.pc = "done", !.kind = kind, !.gate = system_ready,
                                   !.code = 503]
            ELSE IF emptyQ
              THEN [IdleReq EXCEPT !.pc = "done", !.kind = kind, !.gate = system_ready,
                                   !.code = 400]
            ELSE [IdleReq EXCEPT !.pc = FirstPc(kind), !.kind = kind,
                                 !.gate = system_ready, !.start = mem]]
  /\ UNCHANGED <<model_lock, search_lock>>
  /\ UNCHANGED ReqUnchanged

\* hybrid_search: with self.search_lock
hybrid_search_lock(r) ==
  /\ req[r].pc = "s_lock"
  /\ UNCHANGED ServiceVars
  /\ search_lock = 0
  /\ search_lock' = r
  /\ req' = [req EXCEPT ![r].pc = "s_sem", ![r].invoked = TRUE]
  /\ UNCHANGED model_lock
  /\ UNCHANGED ReqUnchanged

\* 1. with model_lock: embed the query, faiss_index.search(query, len(listings))
hybrid_search_semantic(r) ==
  /\ req[r].pc = "s_sem"
  /\ UNCHANGED ServiceVars
  /\ model_lock = "free"
  /\ req' = [req EXCEPT ![r].pc = "s_kw", ![r].sem = mem.faiss_index]
  /\ UNCHANGED <<model_lock, search_lock>>
  /\ UNCHANGED ReqUnchanged

\* transform / cosine_similarity / keyword_scores[idx] raise when the
\* vectorizer is unfitted, when query vector and matrix differ in width, or
\* when the matrix has fewer rows than there are listings
keyword_scores_ok(vec, mat, n) ==
  /\ vec.n > 0
  /\ mat.run # 0
  /\ vec.feat = mat.feat
  /\ mat.n >= n

\* 2. with model_lock: tfidf_vectorizer.transform([query]), cosine_similarity
\* against self.tfidf_matrix; 3-4. combine, sort, build results; any
\* exception is caught and [] returned.  A listing outside the neighbour set
\* that ranks among the results raises as well (missing).
hybrid_search_keyword(r) ==
  /\ req[r].pc = "s_kw"
  /\ UNCHANGED ServiceVars
  /\ model_lock = "free"
  /\ \E missing \in BOOLEAN :
       /\ missing => req[r].sem.n < listings
       /\ req' = [req EXCEPT ![r].pc = "done", ![r].code = 200,
                             ![r].kwModel = mem.tfidf_vectorizer,
                             ![r].kwMatrix = tfidf_matrix,
                             ![r].res = IF keyword_scores_ok(mem.tfidf_vectorizer,
                                                             tfidf_matrix, listings)
                                           /\ ~missing
                                          THEN "ranked" ELSE "empty"]
  /\ search_lock' = 0
  /\ UNCHANGED model_lock
  /\ UNCHANGED ReqUnchanged

\* get_recommendations: with model_lock: faiss_index.search(embeddings[idx], top_n + 10)
get_recommendations(r) ==
  /\ req[r].pc = "rec"
  /\ UNCHANGED ServiceVars
  /\ model_lock = "free"
  /\ req' = [req EXCEPT ![r].pc = "done", ![r].code = 200, ![r].invoked = TRUE,
                        ![r].sem = mem.faiss_index, ![r].res = "ranked"]
  /\ UNCHANGED <<model_lock, search_lock>>
  /\ UNCHANGED ReqUnchanged

\* autocomplete scans self.listings without taking a lock
autocomplete(r) ==
  /\ req[r].pc = "auto"
  /\ UNCHANGED ServiceVars
  /\ req' = [req EXCEPT ![r].pc = "done", ![r].code = 200, ![r].invoked = TRUE,
                        ![r].res = "ranked"]
  /\ UNCHANGED <<model_lock, search_lock>>
  /\ UNCHANGED ReqUnchanged

\* the response is sent; the worker takes the next request
request_done(r) ==
  /\ req[r].pc = "done"
  /\ UNCHANGED ServiceVars
  /\ req' = [req EXCEPT ![r] = IdleReq]
  /\ UNCHANGED <<model_lock, search_lock>>
  /\ UNCHANGED ReqUnchanged

\* ------------------------------------------------- POST /api/admin/retrain
\* routes.data_service / model_manager are set by init_routes, so the
\* endpoint trains only once initialize_system got that far; it is not
\* behind require_ready.  texts = data_service.get_all_texts()
retrain ==
  /\ initPc = "ready"
  /\ UNCHANGED ServiceVars
  /\ trainPc = "idle"
  /\ runCount < MaxRuns
  /\ trainPc' = "lock"
  /\ trainCaller' = "retrain"
  /\ trainRun' = runCount + 1
  /\ runCount' = runCount + 1
  /\ trainTexts' = listings
  /\ retrainResp' = "none"
  /\ UNCHANGED <<use_model, mem, model_lock, search_lock, disk, gcs_available,
                 remote, listings, tfidf_matrix, system_ready, initPc,
                 models_loaded, memBefore, trainResult, req, restarts,
                 lastLoad, mutPc>>
  /\ UNCHANGED S3Vars

\* ------------------------------------- listing mutation endpoints (routes)
MutUnchanged == <<use_model, mem, model_lock, search_lock, disk, gcs_available,
                  remote, system_ready, initPc, models_loaded, trainPc,
                  trainCaller, trainRun, trainTexts, runCount, memBefore,
                  trainResult, retrainResp, req, restarts, lastLoad,
                  s3_backup, s3, pointer, now, restorePc, restoreResp>>

\* admin_add_listing: data_service.add_listing(listing) appends one listing
admin_add_listing ==
  /\ require_ready(system_ready)
  /\ UNCHANGED ServiceVars
  /\ mutPc = "idle"
  /\ listings < MaxCorpus
  /\ listings' = listings + 1
  /\ mutPc' = "rebuild"
  /\ UNCHANGED tfidf_matrix
  /\ UNCHANGED MutUnchanged

\* admin_delete_listing: data_service.delete_listing(id) removes one listing
admin_delete_listing ==
  /\ require_ready(system_ready)
  /\ UNCHANGED ServiceVars
  /\ mutPc = "idle"
  /\ listings > 1
  /\ listings' = listings - 1
  /\ mutPc' = "rebuild"
  /\ UNCHANGED tfidf_matrix
  /\ UNCHANGED MutUnchanged

\* search_service.listings = data_service.listings;
\* search_service._build_tfidf_matrix()  (takes model_lock; transform raises
\* on an unfitted vectorizer and leaves the matrix as it was)
rebuild_tfidf_matrix ==
  /\ mutPc = "rebuild"
  /\ UNCHANGED ServiceVars
  /\ model_lock = "free"
  /\ tfidf_matrix' = IF mem.tfidf_vectorizer.run # 0 /\ mem.tfidf_vectorizer.n = 0
                       THEN tfidf_matrix
                       ELSE build_tfidf_matrix(mem, listings, tfidf_matrix)
  /\ mutPc' = "idle"
  /\ UNCHANGED listings
  /\ UNCHANGED MutUnchanged

\* ------------------------------------------------------------ the process
\* The process is killed and started again in the same deployment: memory
\* is lost, the models directory and the bucket are kept.
Restart ==
  /\ restarts < MaxRestarts
  /\ UNCHANGED ServiceVars
  /\ restarts' = restarts + 1
  /\ use_model' = FALSE
  /\ mem' = NoBundle
  /\ model_lock' = "free"
  /\ search_lock' = 0
  /\ listings' = 0
  /\ tfidf_matrix' = NoArt
  /\ system_ready' = FALSE
  /\ initPc' = "start"
  /\ models_loaded' = FALSE
  /\ trainPc' = "idle"
  /\ trainCaller' = "none"
  /\ trainRun' = 0
  /\ trainTexts' = 0
  /\ memBefore' = NoBundle
  /\ trainResult' = "none"
  /\ retrainResp' = "none"
  /\ req' = [r \in Requests |-> IdleReq]
  /\ lastLoad' = NoLoad
  /\ mutPc' = "idle"
  /\ UNCHANGED <<disk, remote, runCount, gcs_available>>
  /\ UNCHANGED S3Vars

\* ---------------------------------------------------------- S3BackupService
keep_versions == 1      \* S3BackupService.keep_versions (config S3_KEEP_VERSIONS)
MaxUploadFailures == 1  \* failing uploads per backup
MaxDay == 2             \* days the clock can show
MaxSec == 1             \* seconds of a day the clock can show
CleanupListLimit == 100 \* _cleanup_old_backups: list_backups(limit=100)

\* strftime("%Y%m%d_%H%M%S"): a stamp is the sequence of the '_'-separated
\* parts of the timestamp string, <<date, time>>
Stamps == {<<d, t>> : d \in 1..MaxDay, t \in 1..MaxSec}
StampLess(a, b) == a[1] < b[1] \/ (a[1] = b[1] /\ a[2] < b[2])

\* the clock moves to the next second or to the start of the next day
NextStamps(t) == {st \in Stamps : st = <<t[1], t[2] + 1>> \/ st = <<t[1] + 1, 1>>}

\* logical artifact names, in the order of files_to_backup / files_to_restore
Arts == <<"tfidf", "faiss", "embeddings", "metadata">>
ArtSet == {Arts[i] : i \in 1..4}

\* f"models/backups/{name}_{timestamp}.{ext}"
S3Key(art, stamp) == [art |-> art, stamp |-> stamp]
SameKey(o, key) == o.art = key.art /\ o.stamp = key.stamp
HasKey(store, key) == \E o \in store : SameKey(o, key)
get_object(store, key) == CHOOSE o \in store : SameKey(o, key)

\* the key ends in .gz for every artifact but the metadata
KeyIsGz(art) == art # "metadata"
\* local_file.endswith(('.pkl', '.bin', '.npy'))
LocalIsCompressed(path) == path \in {TFIDF_MODEL_PATH, FAISS_INDEX_PATH,
                                     EMBEDDINGS_PATH, RESTORED_EMBEDDINGS_PATH}

gzip_compress(data) == [gz |-> TRUE, data |-> data]
PlainBody(data) == [gz |-> FALSE, data |-> data]
gzip_ok(body) == body.gz
gzip_decompress(body) == body.data

put_object(store, key, body, t) ==
  {o \in store : ~SameKey(o, key)}
    \cup {[art |-> key.art, stamp |-> key.stamp, body |-> body, modified |-> t]}

delete_object(store, key) == {o \in store : ~SameKey(o, key)}

\* the sets of artifacts whose upload can fail in one backup
UploadFailures == {F \in SUBSET ArtSet : Cardinality(F) <= MaxUploadFailures}

\* _upload_compressed / _upload_file: an exception is logged and swallowed
upload_one(store, d, i, stamp, uploadFailed) ==
  LET path == required_files[i]
  IN IF d[path].st = "absent" \/ Arts[i] \in uploadFailed
       THEN store
       ELSE put_object(store, S3Key(Arts[i], stamp),
                       IF LocalIsCompressed(path) THEN gzip_compress(d[path])
                                                  ELSE PlainBody(d[path]),
                       stamp)

upload_all(store, d, stamp, uploadFailed) ==
  upload_one(upload_one(upload_one(upload_one(store, d, 1, stamp, uploadFailed),
                                   d, 2, stamp, uploadFailed),
                        d, 3, stamp, uploadFailed),
             d, 4, stamp, uploadFailed)

\* _create_latest_pointer: always called; a failed put is swallowed
create_latest_pointer(ptr, stamp, pointerOk) == IF pointerOk THEN stamp ELSE ptr

\* list_objects_v2(Prefix='models/backups/metadata_', MaxKeys=limit): the
\* first limit keys in key order
list_objects(store, limit) ==
  LET metas == {o \in store : o.art = "metadata"}
  IN {o \in metas : Cardinality({q \in metas : StampLess(q.stamp, o.stamp)}) < limit}

RECURSIVE SortedByModified(_)
\* sorted(backups, key=modified, reverse=True)
SortedByModified(S) ==
  IF S = {} THEN <<>>
  ELSE LET newest == CHOOSE o \in S :
                        \A q \in S : q = o \/ StampLess(q.modified, o.modified)
                                           \/ (q.modified = o.modified
                                               /\ StampLess(o.stamp, q.stamp))
       IN <<newest>> \o SortedByModified(S \ {newest})

list_backups(store, limit) == SortedByModified(list_objects(store, limit))

\* backup['key'].split('_')[-1].replace('.json', ''): the text after the last
\* underscore of the key, i.e. the last part of the stamp only
ParsedTimestamp(o) == <<o.stamp[Len(o.stamp)]>>

RECURSIVE DeleteVersions(_, _, _)
DeleteVersions(store, backups, i) ==
  IF i > Len(backups) THEN store
  ELSE LET ts == ParsedTimestamp(backups[i])
           after == {o \in store : \A a \in ArtSet : ~SameKey(o, S3Key(a, ts))}
       IN DeleteVersions(after, backups, i + 1)

\* _cleanup_old_backups
cleanup_old_backups(store) ==
  LET backups == list_backups(store, CleanupListLimit)
  IN IF Len(backups) <= keep_versions
       THEN store
       ELSE DeleteVersions(store, backups, keep_versions + 1)

\* S3BackupService.backup_models
backup_models(store, d, stamp, uploadFailed) ==
  cleanup_old_backups(upload_all(store, d, stamp, uploadFailed))

\* the stored versions: stamps that have a metadata object
Versions(store) == {o.stamp : o \in {q \in store : q.art = "metadata"}}

\* 6. (root application) self.s3_backup.backup_models(...), then return.
\* datetime.now() has moved on since the previous backup.  A pruning that
\* fails (list_backups or the deletes raise) is logged and deletes nothing.
initialize_models_backup ==
  /\ trainPc = "upload"
  /\ UNCHANGED ServiceVars
  /\ s3_backup
  /\ \E stamp \in NextStamps(now), uploadFailed \in UploadFailures,
        pointerOk \in BOOLEAN, pruneOk \in BOOLEAN :
       /\ now' = stamp
       /\ s3' = IF pruneOk THEN backup_models(s3, disk, stamp, uploadFailed)
                ELSE upload_all(s3, disk, stamp, uploadFailed)
       /\ pointer' = create_latest_pointer(pointer, stamp, pointerOk)
  /\ model_lock' = "free"
  /\ trainPc' = "idle"
  /\ trainCaller' = "none"
  /\ trainResult' = "ok"
  /\ IF trainCaller = "init"
       THEN /\ initPc' = "search"
            /\ retrainResp' = retrainResp
       ELSE /\ retrainResp' = "success"
            /\ initPc' = initPc
  /\ UNCHANGED <<system_ready, trainRun, trainTexts, memBefore>>
  /\ UNCHANGED <<use_model, mem, disk, remote>>
  /\ UNCHANGED NotTrain
  /\ UNCHANGED <<s3_backup, restorePc, restoreResp>>

\* S3BackupService.restore_latest / _download_file.  k files are restored
\* before a failure (4: none).  The failing download either raises before
\* the local file is opened ("get": missing key, network) or after ("write").
Restorable(store, ptr, k) ==
  \A i \in 1..k :
     /\ ptr # <<>>
     /\ HasKey(store, S3Key(Arts[i], ptr))
     /\ KeyIsGz(Arts[i]) => gzip_ok(get_object(store, S3Key(Arts[i], ptr)).body)

download_file(store, key) ==
  LET body == get_object(store, key).body
  IN IF KeyIsGz(key.art) THEN gzip_decompress(body) ELSE body.data

restore_latest(d, store, ptr, k, mode) ==
  [f \in DOMAIN d |->
     IF \E i \in 1..k : restore_files[i] = f
       THEN download_file(store, S3Key(Arts[CHOOSE i \in 1..k : restore_files[i] = f], ptr))
     ELSE IF k < 4 /\ mode = "write" /\ restore_files[k + 1] = f
       THEN Truncated
     ELSE d[f]]

restore_latest_result(k) == k = 4

RestoreUnchanged == <<use_model, mem, model_lock, search_lock, gcs_available, remote,
                      listings, tfidf_matrix, system_ready, initPc, models_loaded,
                      trainPc, trainCaller, trainRun, trainTexts, runCount,
                      memBefore, trainResult, retrainResp, req, restarts, mutPc,
                      s3_backup, s3, pointer, now>>

\* POST /api/admin/restore-models: success = s3_backup.restore_latest(MODELS_DIR)
restore_from_backup ==
  /\ initPc = "ready"
  /\ UNCHANGED ServiceVars
  /\ s3_backup
  /\ restorePc = "idle"
  /\ \E k \in 0..4, mode \in {"get", "write"} :
       /\ Restorable(s3, pointer, k)
       /\ (k < 4 /\ mode = "write") => Restorable(s3, pointer, k + 1)
       /\ (k = 4) => mode = "get"
       /\ disk' = restore_latest(disk, s3, pointer, k, mode)
       /\ IF restore_latest_result(k)
            THEN /\ restorePc' = "load"
                 /\ restoreResp' = "none"
            ELSE /\ restorePc' = "idle"
                 /\ restoreResp' = "error"
  /\ UNCHANGED lastLoad
  /\ UNCHANGED RestoreUnchanged

\* ... if success: model_manager.load_models(); respond "success"
restore_from_backup_load ==
  /\ restorePc = "load"
  /\ UNCHANGED ServiceVars
  /\ model_lock = "free"
  /\ \E useOk \in BOOLEAN, k \in 0..4 :
       LET res == load_models(mem, disk, remote, FALSE, {}, useOk, k)
       IN /\ Readable(res.disk, k)
          /\ ~res.use => k = 0
          /\ mem' = res.mem
          /\ use_model' = (use_model \/ res.use)
          /\ lastLoad' = [called |-> TRUE, result |-> res.result,
                          localBefore |-> CompleteLocal(disk),
                          remoteFailed |-> res.remoteFailed,
                          readFault |-> res.readFault, memBefore |-> mem]
  /\ restorePc' = "idle"
  /\ restoreResp' = "success"
  /\ UNCHANGED <<model_lock, search_lock, gcs_available, remote, disk,
                 listings, tfidf_matrix, system_ready, initPc, models_loaded,
                 trainPc, trainCaller, trainRun, trainTexts, runCount,
                 memBefore, trainResult, retrainResp, req, restarts, mutPc,
                 s3_backup, s3, pointer, now>>

\* ------------------------------------------------- DataService (backend)
\* Strings are sequences of characters.  A listing is a JSON object with the
\* fields id, title, sector and tags; an id is a JSON value with its type.
MaxId == 2         \* largest id a request names
MaxListings == 2   \* listings the store can hold

Id(t, v) == [t |-> t, v |-> v]
IdValues ==
  {NoId, Id("null", 0), Id("float", 1), Id("str", 1)}
    \cup {Id("int", v) : v \in 0..MaxId}

\* str(x) of a number or a digit string: the digits, ".0" after a float
py_str_id(id) == [digits |-> id.v, dot |-> (id.t = "float")]
\* int(x)
py_int(id) == id.v
\* x == y in Python: 1 == 1.0, "1" != 1
IsNumber(id) == id.t \in {"int", "float"}
py_eq(a, b) ==
  \/ IsNumber(a) /\ IsNumber(b) /\ a.v = b.v
  \/ ~IsNumber(a) /\ a = b
\* new_listing.get("id") in (None, "", 0), or the key is not there
id_is_missing(id) ==
  \/ id.t \in {"absent", "null"}
  \/ IsNumber(id) /\ id.v = 0

\* str(listing.get(field, ""))
py_str_field(x) ==
  IF x = AbsentField THEN <<>>
  ELSE IF x = NullField THEN <<"N", "o", "n", "e">>
  ELSE x

RECURSIVE lstrip(_)
lstrip(s) == IF s # <<>> /\ Head(s) = " " THEN lstrip(Tail(s)) ELSE s
RECURSIVE rstrip(_)
rstrip(s) ==
  IF s # <<>> /\ s[Len(s)] = " " THEN rstrip(SubSeq(s, 1, Len(s) - 1)) ELSE s
\* str.strip()
strip(s) == rstrip(lstrip(s))

Tag(text) == [type |-> "str", text |-> text]
NumberItem == [type |-> "num", text |-> <<"1">>]
TagList(items) == [t |-> "list", items |-> items]
NullTags == [t |-> "null", items |-> <<>>]
StringTags == [t |-> "str", items |-> <<>>]
\* isinstance(tags, list)
is_list(tags) == tags.t = "list"

Max(S) == CHOOSE x \in S : \A y \in S : y <= x
SeqToSet(q) == {q[i] : i \in 1..Len(q)}

\* DataService._next_id: one more than the largest int(id), 0 when none
next_id(L) == Max({0} \cup {py_int(L[i].id) : i \in 1..Len(L)}) + 1

\* hashlib.md5 of the file's bytes: a digest that identifies the content
md5(content) == <<"md5", content>>

\* DataService._extract_metadata: sectors first, then tags; a listing whose
\* tags are null cannot be iterated and the TypeError leaves tags as it was
extract_metadata_raises(L) == \E i \in 1..Len(L) : L[i].tags.t = "null"
extract_metadata(L, old) ==
  [sectors |-> {IF L[i].sector = AbsentField THEN <<"O", "t", "h", "e", "r">>
                ELSE L[i].sector : i \in 1..Len(L)},
   tags |-> IF extract_metadata_raises(L) THEN old.tags
            ELSE UNION {{L[i].tags.items[j] : j \in 1..Len(L[i].tags.items)}
                          : i \in 1..Len(L)}]

\* the payload is written and the metadata refreshed, the hash is not
persist_stale_hash(d) ==
  [d EXCEPT !.file = d.listings,
            !.metadata = extract_metadata(d.listings, d.metadata)]
\* DataService._persist: write the payload, then refresh hash and metadata
persist(d) ==
  [d EXCEPT !.file = d.listings,
            !.data_hash = md5(d.listings),
            !.metadata = extract_metadata(d.listings, d.metadata)]

\* what a DataService call did: the store afterwards, and whether it raised
Raise(d, error) ==
  [raised |-> TRUE, error |-> error, ds |-> d, listing |-> NoListing]
Return(d, l) ==
  [raised |-> FALSE, error |-> "none", ds |-> d, listing |-> l]
\* _persist wrote the file, then _extract_metadata raised on null tags
PersistOutcome(d, l) ==
  IF extract_metadata_raises(d.listings)
    THEN [raised |-> TRUE, error |-> "TypeError", ds |-> persist(d),
          listing |-> l]
    ELSE Return(persist(d), l)

\* not title or not sector, after str(...).strip()
title_or_sector_missing(l) ==
  \/ strip(py_str_field(l.title)) = <<>>
  \/ strip(py_str_field(l.sector)) = <<>>

\* str(new_listing.get("id")) in {str(x.get("id")) for x in self.listings}
id_exists(L, id) ==
  \E i \in 1..Len(L) : py_str_id(L[i].id) = py_str_id(id)

\* "tags" in l and l["tags"] is not None and not isinstance(l["tags"], list)
tags_rejected(l) == l.tags.t \notin {"absent", "null"} /\ ~is_list(l.tags)

\* DataService.add_listing
add_listing(d, listing) ==
  IF title_or_sector_missing(listing) THEN Raise(d, "ValueError")
  ELSE IF ~id_is_missing(listing.id) /\ id_exists(d.listings, listing.id)
    THEN Raise(d, "ValueError")
  ELSE IF tags_rejected(listing) THEN Raise(d, "ValueError")
  ELSE LET new_listing ==
             IF id_is_missing(listing.id)
               THEN [listing EXCEPT !.id = Id("int", next_id(d.listings))]
               ELSE listing
       IN PersistOutcome([d EXCEPT !.listings = Append(@, new_listing)],
                         new_listing)

\* next((i for i, l in enumerate(self.listings) if int(l.get("id", -1)) ==
\* int(listing_id)), None); 0 stands for None
find_index(L, listing_id) ==
  IF \E i \in 1..Len(L) : py_int(L[i].id) = listing_id
    THEN CHOOSE i \in 1..Len(L) :
           /\ py_int(L[i].id) = listing_id
           /\ \A j \in 1..(i - 1) : py_int(L[j].id) # listing_id
    ELSE 0

\* dict.update: the fields present in updates replace the listing's
dict_update(l, updates) ==
  [id |-> IF updates.id = NoId THEN l.id ELSE updates.id,
   title |-> IF updates.title = AbsentField THEN l.title ELSE updates.title,
   sector |-> IF updates.sector = AbsentField THEN l.sector ELSE updates.sector,
   location |-> IF updates.location = AbsentField THEN l.location
                ELSE updates.location,
   tags |-> IF updates.tags = NoTags THEN l.tags ELSE updates.tags]

\* DataService.update_listing
update_listing(d, listing_id, updates) ==
  LET idx == find_index(d.listings, listing_id)
  IN IF idx = 0 THEN Raise(d, "ValueError")
     ELSE IF updates.id # NoId /\ ~py_eq(updates.id, d.listings[idx].id)
       THEN Raise(d, "ValueError")
     ELSE LET updated == dict_update(d.listings[idx], updates)
          IN IF title_or_sector_missing(updated) THEN Raise(d, "ValueError")
             ELSE IF tags_rejected(updated) THEN Raise(d, "ValueError")
             ELSE PersistOutcome([d EXCEPT !.listings[idx] = updated], updated)

\* the listing at position listing_id leaves instead of the one with that id
without_position(L, listing_id) ==
  IF listing_id \in 1..Len(L)
    THEN [i \in 1..(Len(L) - 1) |-> IF i < listing_id THEN L[i] ELSE L[i + 1]]
    ELSE L
\* the listings that stay: int(l.get("id", -1)) != int(listing_id)
without_id(L, listing_id) ==
  SelectSeq(L, LAMBDA l : py_int(l.id) # listing_id)

\* DataService.delete_listing
delete_listing(d, listing_id) ==
  LET kept == without_id(d.listings, listing_id)
  IN IF Len(kept) = Len(d.listings) THEN Raise(d, "ValueError")
     ELSE PersistOutcome([d EXCEPT !.listings = kept], NoListing)

\* DataService.load_data on a file holding L
load_data(L) ==
  [listings |-> L, file |-> L, data_hash |-> md5(L),
   metadata |-> extract_metadata(L, [sectors |-> {}, tags |-> {}])]

\* SearchService._prepare_text / DataService.get_all_texts:
\* " ".join(listing.get("tags", [])) needs an iterable of strings
prepare_text_ok(l) ==
  \/ l.tags.t \in {"absent", "str"}
  \/ is_list(l.tags) /\ \A i \in 1..Len(l.tags.items) : l.tags.items[i].type = "str"

\* ---- the requests the model sends to the DataService
Canon == [id |-> NoId, title |-> <<"a">>, sector |-> <<"f">>,
          location |-> AbsentField, tags |-> NoTags]
Titles == {AbsentField, NullField, <<>>, <<" ">>, <<"a">>}
Sectors == {AbsentField, <<" ">>, <<"f">>}
TagValues == {NoTags, NullTags, StringTags, TagList(<<Tag(<<"t">>)>>),
              TagList(<<NumberItem>>)}
\* one field of the listing differs from a plain valid one
Variants(base) ==
  {[base EXCEPT !.id = i] : i \in IdValues}
    \cup {[base EXCEPT !.title = t] : t \in Titles}
    \cup {[base EXCEPT !.sector = x] : x \in Sectors}
    \cup {[base EXCEPT !.tags = g] : g \in TagValues}
AddInputs == Variants(Canon)
UpdateInputs ==
  {[NoListing EXCEPT !.id = i] : i \in {Id("int", 1), Id("int", 2), Id("float", 1)}}
    \cup {[NoListing EXCEPT !.title = t] : t \in {<<>>, <<" ">>, NullField}}
    \cup {[NoListing EXCEPT !.tags = g] : g \in {StringTags, NullTags}}
\* dataset files the service starts from: ids 1..n, pairwise distinct
Stored(i) == [Canon EXCEPT !.id = Id("int", i)]
Datasets == {[i \in 1..n |-> Stored(i)] : n \in 0..2}

\* ---- one call at a time
DataFrame ==
  /\ UNCHANGED <<worker, call, ret>>
  /\ UNCHANGED SystemVars

InitData ==
  /\ Fresh
  /\ gcs_available = FALSE
  /\ s3_backup = FALSE
  /\ \E L \in Datasets : ds = load_data(L)
  /\ worker = [w \in Workers |-> IdleWorker]
  /\ lastOp = NoOp
  /\ call = NoCall
  /\ ret = NoRet

call_add_listing ==
  /\ Len(ds.listings) < MaxListings
  /\ \E listing \in AddInputs :
       LET r == add_listing(ds, listing)
       IN /\ ds' = r.ds
          /\ lastOp' = [op |-> "add", arg |-> listing, id |-> 0,
                        raised |-> r.raised, error |-> r.error]
  /\ DataFrame

call_update_listing ==
  /\ \E listing_id \in 1..MaxId, updates \in UpdateInputs :
       LET r == update_listing(ds, listing_id, updates)
       IN /\ ds' = r.ds
          /\ lastOp' = [op |-> "update", arg |-> updates, id |-> listing_id,
                        raised |-> r.raised, error |-> r.error]
  /\ DataFrame

call_delete_listing ==
  /\ \E listing_id \in 1..MaxId :
       LET r == delete_listing(ds, listing_id)
       IN /\ ds' = r.ds
          /\ lastOp' = [op |-> "delete", arg |-> NoListing, id |-> listing_id,
                        raised |-> r.raised, error |-> r.error]
  /\ DataFrame

NextData ==
  \/ call_add_listing
  \/ call_update_listing
  \/ call_delete_listing

SpecData == InitData /\ [][NextData]_vars

\* ---- concurrent mutations: app.run(threaded=True) gives every request its
\* own thread and DataService takes no lock.  A thread can be preempted
\* between the steps below; each thread executes one mutation.
RaceFrame ==
  /\ UNCHANGED <<lastOp, call, ret>>
  /\ UNCHANGED SystemVars

WorkerDone(w, raised) ==
  worker' = [worker EXCEPT ![w].pc = "done", ![w].raised = raised]

\* a mutation request reaches its endpoint
mutation_arrive(w) ==
  /\ worker[w].pc = "idle"
  /\ \/ \E listing \in {Canon, [Canon EXCEPT !.id = Id("int", MaxId)]} :
          worker' = [worker EXCEPT ![w].pc = "add_check", ![w].op = "add",
                                   ![w].arg = listing]
     \/ \E listing_id \in 1..MaxId :
          worker' = [worker EXCEPT ![w].pc = "del_filter", ![w].op = "delete",
                                   ![w].id = listing_id]
  /\ UNCHANGED ds
  /\ RaceFrame

\* add_listing up to the append: validation, _next_id or the duplicate check
add_listing_check(w) ==
  /\ worker[w].pc = "add_check"
  /\ LET r == add_listing(ds, worker[w].arg)
     IN IF r.raised /\ r.error = "ValueError"
          THEN WorkerDone(w, TRUE)
          ELSE worker' = [worker EXCEPT ![w].pc = "append",
                                        ![w].local = <<r.listing>>]
  /\ UNCHANGED ds
  /\ RaceFrame

\* self.listings.append(new_listing)
add_listing_append(w) ==
  /\ worker[w].pc = "append"
  /\ ds' = [ds EXCEPT !.listings = Append(@, worker[w].local[1])]
  /\ worker' = [worker EXCEPT ![w].pc = "write"]
  /\ RaceFrame

\* before = len(self.listings); the list comprehension builds the new list
delete_listing_filter(w) ==
  /\ worker[w].pc = "del_filter"
  /\ worker' = [worker EXCEPT ![w].pc = "del_assign",
                              ![w].before = Len(ds.listings),
                              ![w].local = without_id(ds.listings, worker[w].id)]
  /\ UNCHANGED ds
  /\ RaceFrame

\* self.listings = <the new list>; raise if nothing was removed
delete_listing_assign(w) ==
  /\ worker[w].pc = "del_assign"
  /\ ds' = [ds EXCEPT !.listings = worker[w].local]
  /\ IF Len(worker[w].local) = worker[w].before
       THEN WorkerDone(w, TRUE)
       ELSE worker' = [worker EXCEPT ![w].pc = "write"]
  /\ RaceFrame

\* _persist: json.dump(self.listings) into the dataset file
persist_write(w) ==
  /\ worker[w].pc = "write"
  /\ ds' = [ds EXCEPT !.file = ds.listings]
  /\ worker' = [worker EXCEPT ![w].pc = "refresh"]
  /\ RaceFrame

\* _persist: _update_hash() reads the file, _extract_metadata() the listings
persist_refresh(w) ==
  /\ worker[w].pc = "refresh"
  /\ ds' = [ds EXCEPT !.data_hash = md5(ds.file),
                      !.metadata = extract_metadata(ds.listings, ds.metadata)]
  /\ WorkerDone(w, extract_metadata_raises(ds.listings))
  /\ RaceFrame

NextThreads ==
  \E w \in Workers :
    \/ mutation_arrive(w)
    \/ add_listing_check(w)
    \/ add_listing_append(w)
    \/ delete_listing_filter(w)
    \/ delete_listing_assign(w)
    \/ persist_write(w)
    \/ persist_refresh(w)

SpecThreads == InitData /\ [][NextThreads]_vars

\* --------------------------------------------- the store and its data file
\* The store as an operator sees it: well-formed requests, the data file
\* edited behind the store's back, and has_changed() polled in between.
StoreAdds ==
  {[Canon EXCEPT !.id = i] : i \in {NoId, Id("float", 1), Id("str", 1), Id("int", MaxId)}}
    \cup {[Canon EXCEPT !.tags = TagList(<<Tag(<<"t">>)>>)]}
StoreUpdates ==
  {[NoListing EXCEPT !.sector = <<"r">>],
   [NoListing EXCEPT !.id = Id("int", 1)]}

store_add_listing ==
  /\ Len(ds.listings) < MaxListings
  /\ \E listing \in StoreAdds :
       LET r == add_listing(ds, listing)
       IN /\ ds' = r.ds
          /\ lastOp' = [op |-> "add", arg |-> listing, id |-> 0,
                        raised |-> r.raised, error |-> r.error]
  /\ DataFrame

store_update_listing ==
  /\ \E listing_id \in 1..MaxId, updates \in StoreUpdates :
       LET r == update_listing(ds, listing_id, updates)
       IN /\ ds' = r.ds
          /\ lastOp' = [op |-> "update", arg |-> updates, id |-> listing_id,
                        raised |-> r.raised, error |-> r.error]
  /\ DataFrame

\* hashlib.md5(f.read()).hexdigest() of the data file
update_hash(d) == [d EXCEPT !.data_hash = md5(d.file)]

\* DataService.has_changed: old_hash = self.data_hash; self._update_hash();
\* return old_hash != self.data_hash
has_changed(d) ==
  [ds |-> update_hash(d), changed |-> d.data_hash # update_hash(d).data_hash]

call_has_changed ==
  /\ LET r == has_changed(ds)
     IN /\ ds' = r.ds
        /\ ret' = [raised |-> FALSE, results |-> <<r.changed>>]
  /\ lastOp' = [NoOp EXCEPT !.op = "has_changed"]
  /\ UNCHANGED <<worker, call>>
  /\ UNCHANGED SystemVars

\* dataset.json is rewritten by something else than the store
external_write ==
  /\ \E L \in {<<>>, <<Stored(1)>>} :
       /\ L # ds.file
       /\ ds' = [ds EXCEPT !.file = L]
  /\ lastOp' = [NoOp EXCEPT !.op = "external_write"]
  /\ DataFrame

NextStore ==
  \/ store_add_listing
  \/ store_update_listing
  \/ call_delete_listing
  \/ call_has_changed
  \/ external_write

SpecStore == InitData /\ [][NextStore]_vars

\* ---------------------------------------------------------- SearchService
\* Rows and listings are numbered from 0 as in the code; L[i + 1] is
\* self.listings[i].  Scores are small integers; a combined score is kept in
\* tenths so that the weights 0.6 / 0.4 stay integers.
MaxIndexRows == 3   \* rows the vector index can hold
MaxScore == 1       \* largest similarity score
MaxTopN == 2        \* largest top_n / max_suggestions a caller asks for
SEMANTIC_WEIGHT == 6   \* config.SEMANTIC_WEIGHT = 0.6, in tenths
RECOMMEND_SLACK == 10  \* get_recommendations searches top_n + 10 neighbors

Neighbor(idx, score) == [idx |-> idx, score |-> score]
\* what faiss returns in a slot it has no neighbor for: label -1 and a score
\* below every real one
NoNeighbor == Neighbor(-1, -1)

\* the rows of the index by descending score, lower row first among equals
RECURSIVE ByScore(_, _)
ByScore(rows, scores) ==
  IF rows = {} THEN <<>>
  ELSE LET best == CHOOSE r \in rows :
                     \A x \in rows : \/ scores[x] < scores[r]
                                     \/ scores[x] = scores[r] /\ r <= x
       IN <<Neighbor(best, scores[best])>> \o ByScore(rows \ {best}, scores)

Min(a, b) == IF a <= b THEN a ELSE b

\* faiss_index.search(query, k): the k best rows, padded with -1 when the
\* index holds fewer than k rows.  scores[r] is the similarity of row r.
faiss_search(scores, k) ==
  LET ntotal == Cardinality(DOMAIN scores)
      found == SubSeq(ByScore(DOMAIN scores, scores), 1, Min(k, ntotal))
  IN found \o [i \in 1..(k - Len(found)) |-> NoNeighbor]

\* np.where(semantic_indices[0] == idx)[0]: the positions holding idx
np_where(neighbors, idx) ==
  {p \in 1..Len(neighbors) : neighbors[p].idx = idx}

\* x[0] of a non-empty position array
first(S) == CHOOSE q \in S : \A x \in S : q <= x

\* combined_scores[idx] (lines 146-157); semantic_weight is in tenths, and
\* so is the result
combined_score(neighbors, keyword_scores, idx, semantic_weight) ==
  LET sem_idx == np_where(neighbors, idx)
      semantic_score == IF sem_idx # {} THEN neighbors[first(sem_idx)].score
                        ELSE 0
  IN semantic_weight * semantic_score
       + (10 - semantic_weight) * keyword_scores[idx]

\* descending, but the later of two equal items first
RECURSIVE sorted_desc_reversed(_, _)
sorted_desc_reversed(idxs, combined) ==
  IF idxs = {} THEN <<>>
  ELSE LET best == CHOOSE i \in idxs :
                     \A x \in idxs : \/ combined[x] < combined[i]
                                     \/ combined[x] = combined[i] /\ x <= i
       IN <<best>> \o sorted_desc_reversed(idxs \ {best}, combined)

\* sorted(combined_scores.items(), key=score, reverse=True): stable
RECURSIVE sorted_desc(_, _)
sorted_desc(idxs, combined) ==
  IF idxs = {} THEN <<>>
  ELSE LET best == CHOOSE i \in idxs :
                     \A x \in idxs : \/ combined[x] < combined[i]
                                     \/ combined[x] = combined[i] /\ i <= x
       IN <<best>> \o sorted_desc(idxs \ {best}, combined)

\* the except of hybrid_search / get_recommendations: log, return []
Caught == [raised |-> FALSE, results |-> <<>>]
Results(rs) == [raised |-> FALSE, results |-> rs]

\* SearchService.hybrid_search over self.listings = L; semantic[r] is the
\* score of index row r for the query, keyword[i] the cosine score of row i
\* of the keyword matrix
hybrid_search(L, semantic, keyword, top_n, semantic_weight) ==
  LET n == Len(L)
      neighbors == faiss_search(semantic, n)
      rows == Cardinality(DOMAIN keyword)
  IN IF rows < n THEN Caught      \* keyword_scores[idx]: IndexError
     ELSE
       LET combined == [idx \in 0..(n - 1) |->
                          combined_score(neighbors, keyword, idx, semantic_weight)]
           ranked == sorted_desc(0..(n - 1), combined)
           top == SubSeq(ranked, 1, Min(top_n, n))
       IN IF \E p \in 1..Len(top) : np_where(neighbors, top[p]) = {}
            THEN Caught           \* np.where(...)[0][0]: IndexError
            ELSE Results([p \in 1..Len(top) |->
                   [listing |-> L[top[p] + 1],
                    similarity_score |-> combined[top[p]],
                    semantic_score |->
                      neighbors[first(np_where(neighbors, top[p]))].score,
                    keyword_score |-> keyword[top[p]]]])

\* dict.get(key): None for a missing key
py_get(x) == IF x = AbsentField THEN NullField ELSE x

\* the position in L of Python's L[i], 0 when it is out of range
py_index(L, i) ==
  IF i >= 0 /\ i < Len(L) THEN i + 1
  ELSE IF i < 0 /\ -i <= Len(L) THEN Len(L) + i + 1
  ELSE 0

\* the candidate loop of get_recommendations (lines 228-244) from position p
RECURSIVE recommend_loop(_, _, _, _, _, _, _)
recommend_loop(L, neighbors, idx, top_n, sector_filter, p, results) ==
  IF p > Len(neighbors) THEN Results(results)
  ELSE
    LET candidate_idx == neighbors[p].idx
        at == py_index(L, candidate_idx)
    IN IF candidate_idx = idx
         THEN recommend_loop(L, neighbors, idx, top_n, sector_filter, p + 1, results)
       ELSE IF at = 0 THEN Caught     \* self.listings[candidate_idx]: IndexError
       ELSE IF sector_filter /\ py_get(L[at].sector) # py_get(L[idx + 1].sector)
         THEN recommend_loop(L, neighbors, idx, top_n, sector_filter, p + 1, results)
       ELSE
         LET more == Append(results, [listing |-> L[at],
                                      similarity_score |-> neighbors[p].score])
         IN IF Len(more) >= top_n THEN Results(more)
            ELSE recommend_loop(L, neighbors, idx, top_n, sector_filter, p + 1, more)

\* SearchService.get_recommendations; sims[r] is the similarity of index row
\* r to the stored embedding of the source listing
get_recommendations_of(L, sims, listing_id, top_n, sector_filter) ==
  LET found == {i \in 1..Len(L) : py_eq(L[i].id, Id("int", listing_id))}
      rows == Cardinality(DOMAIN sims)
  IN IF found = {} THEN [raised |-> TRUE, results |-> <<>>]    \* ValueError
     ELSE LET idx == first(found) - 1
          IN IF idx >= rows THEN Caught    \* embeddings[idx]: IndexError
             ELSE recommend_loop(L, faiss_search(sims, top_n + RECOMMEND_SLACK),
                                 idx, top_n, sector_filter, 1, <<>>)

\* str.lower() over the letters the listings use
lower_char(c) == IF c = "A" THEN "a" ELSE IF c = "B" THEN "b" ELSE c
lower(text) == [i \in 1..Len(text) |-> lower_char(text[i])]

\* query in text
contains(q, text) ==
  \E i \in 1..(Len(text) - Len(q) + 1) : SubSeq(text, i, i + Len(q) - 1) = q

\* str(item) for each item autocomplete reads from one field of a listing
field_items(listing, field) ==
  IF field = "tags"
    THEN [i \in 1..Len(listing.tags.items) |-> listing.tags.items[i].text]
  ELSE LET values == IF field = "title" THEN listing.title ELSE listing.sector
       IN IF values = AbsentField THEN << <<"[", "]">> >>
          ELSE << py_str_field(values) >>

\* the item loop without the "query in text" test
RECURSIVE scan_items_unfiltered(_, _, _, _, _)
scan_items_unfiltered(items, field, category, q, acc) ==
  IF items = <<>> THEN acc
  ELSE LET text == lower(Head(items))
           next == IF text \notin acc.seen
                     THEN [suggestions |->
                             Append(acc.suggestions,
                                    [text |-> Head(items), type |-> field,
                                     category |-> category]),
                           seen |-> acc.seen \cup {text}]
                     ELSE acc
       IN scan_items_unfiltered(Tail(items), field, category, q, next)

\* the item loop of autocomplete (lines 290-298)
RECURSIVE scan_items(_, _, _, _, _)
scan_items(items, field, category, q, acc) ==
  IF items = <<>> THEN acc
  ELSE LET text == lower(Head(items))
           next == IF contains(q, text) /\ text \notin acc.seen
                     THEN [suggestions |->
                             Append(acc.suggestions,
                                    [text |-> Head(items), type |-> field,
                                     category |-> category]),
                           seen |-> acc.seen \cup {text}]
                     ELSE acc
       IN scan_items(Tail(items), field, category, q, next)

\* the three fields of one listing (lines 283-298)
scan_listing(listing, q, acc) ==
  LET category == IF listing.sector = AbsentField
                    THEN <<"O", "t", "h", "e", "r">> ELSE listing.sector
      t == scan_items(field_items(listing, "title"), "title", category, q, acc)
      s == scan_items(field_items(listing, "sector"), "sector", category, q, t)
  IN scan_items(field_items(listing, "tags"), "tags", category, q, s)

\* the listing loop of autocomplete (lines 282-303) from listing i
RECURSIVE scan_listings(_, _, _, _, _)
scan_listings(L, i, q, max_suggestions, acc) ==
  IF i > Len(L) THEN Results(acc.suggestions)
  ELSE IF L[i].tags = NullTags
    THEN [raised |-> TRUE, results |-> <<>>]    \* for item in None: TypeError
  ELSE LET next == scan_listing(L[i], q, acc)
       IN IF Len(next.suggestions) >= max_suggestions
            THEN Results(next.suggestions)
            ELSE scan_listings(L, i + 1, q, max_suggestions, next)

\* SearchService.autocomplete
autocomplete_of(L, query, max_suggestions) ==
  LET q == strip(lower(query))
  IN IF q = <<>> THEN Results(<<>>)
     ELSE scan_listings(L, 1, q, max_suggestions,
                        [suggestions |-> <<>>, seen |-> {}])

\* ------------------------------------------------------------ corpus text
\* sep.join(parts)
RECURSIVE join(_, _)
join(sep, parts) ==
  IF parts = <<>> THEN <<>>
  ELSE IF Len(parts) = 1 THEN parts[1]
  ELSE parts[1] \o sep \o join(sep, Tail(parts))

\* " ".join(listing.get("tags", [])) raises TypeError: None is not iterable,
\* an item that is no str cannot be joined
join_tags_raises(tags) ==
  \/ tags = NullTags
  \/ \E j \in 1..Len(tags.items) : tags.items[j].type # "str"

\* " ".join(listing.get("tags", []))
join_tags(tags) ==
  join(<<" ">>, [j \in 1..Len(tags.items) |-> tags.items[j].text])

\* a key the listings of the model never carry: description, investment_range
NoSuchKey == AbsentField

\* DataService.get_all_texts: one text per listing, or the exception of the
\* first listing whose tags cannot be joined
get_all_texts(d) ==
  IF \E i \in 1..Len(d.listings) : join_tags_raises(d.listings[i].tags)
    THEN [raised |-> TRUE, results |-> <<>>]
    ELSE Results([i \in 1..Len(d.listings) |->
           join(<<" ">>,
                <<py_str_field(d.listings[i].title),
                  py_str_field(d.listings[i].sector),
                  py_str_field(NoSuchKey),
                  py_str_field(NoSuchKey),
                  py_str_field(d.listings[i].location),
                  join_tags(d.listings[i].tags)>>)])

\* the text with the sector before the title
prepare_text_sector_first(listing) ==
  IF join_tags_raises(listing.tags) THEN [raised |-> TRUE, text |-> <<>>]
  ELSE [raised |-> FALSE,
        text |-> join(<<" ">>,
                      <<py_str_field(listing.sector),
                        py_str_field(listing.title),
                        py_str_field(NoSuchKey),
                        py_str_field(NoSuchKey),
                        py_str_field(listing.location),
                        join_tags(listing.tags)>>)]

\* SearchService._prepare_text
prepare_text(listing) ==
  IF join_tags_raises(listing.tags) THEN [raised |-> TRUE, text |-> <<>>]
  ELSE [raised |-> FALSE,
        text |-> join(<<" ">>,
                      <<py_str_field(listing.title),
                        py_str_field(listing.sector),
                        py_str_field(NoSuchKey),
                        py_str_field(NoSuchKey),
                        py_str_field(listing.location),
                        join_tags(listing.tags)>>)]

\* ----------------------------------- listing mutation routes over the store
\* a JSON body key that is not in the response
NoKey == "<absent>"

\* @error_handler (deps.py 53-63): ValueError is a 400, any other exception
\* a 500; neither body has a retrain_required key
error_handler(error) ==
  [code |-> IF error = "ValueError" THEN 400 ELSE 500, status |-> NoKey,
   retrain_required |-> NoKey]

\* a success body that does not mention retraining
mutation_response_without_flag(status, code) ==
  [code |-> code, status |-> status, retrain_required |-> NoKey]

\* the jsonify(...) of the four mutation routes
mutation_response(status, code) ==
  [code |-> code, status |-> status, retrain_required |-> "True"]

\* search_service._build_tfidf_matrix() raises when a listing has no text
build_tfidf_matrix_raises(L) ==
  \E i \in 1..Len(L) : prepare_text(L[i]).raised

\* the body of a mutation route under @error_handler, past require_admin
\* and require_ready: r is the outcome of the DataService call
mutation_route(r, status, code) ==
  IF r.raised THEN error_handler(r.error)
  ELSE IF build_tfidf_matrix_raises(r.ds.listings) THEN error_handler("TypeError")
  ELSE mutation_response(status, code)

\* request bodies: well-formed listings, an empty title, tags that are null
\* or hold a number
RouteAdds ==
  StoreAdds \cup {[Canon EXCEPT !.title = <<>>],
                  [Canon EXCEPT !.tags = NullTags],
                  [Canon EXCEPT !.tags = TagList(<<NumberItem>>)]}
RouteUpdates == StoreUpdates \cup {[NoListing EXCEPT !.tags = NullTags]}

RouteFrame ==
  /\ UNCHANGED <<worker, call>>
  /\ UNCHANGED SystemVars

\* _create_listing_from_request raises ValueError without a JSON body
post_listing(route) ==
  /\ Len(ds.listings) < MaxListings
  /\ \/ /\ ds' = ds
        /\ ret' = error_handler("ValueError")
        /\ lastOp' = [NoOp EXCEPT !.op = route, !.raised = TRUE,
                                  !.error = "ValueError"]
     \/ \E listing \in RouteAdds :
          LET r == add_listing(ds, listing)
          IN /\ ds' = r.ds
             /\ ret' = mutation_route(r, "created", 201)
             /\ lastOp' = [op |-> route, arg |-> listing, id |-> 0,
                           raised |-> r.raised, error |-> r.error]
  /\ RouteFrame

\* POST /api/admin/listings
admin_add_listing_response == post_listing("admin_add_listing")

\* POST /api/add/listings
add_listing_alias == post_listing("add_listing_alias")

\* PUT /api/admin/listings/<int:listing_id>
admin_update_listing ==
  /\ \E listing_id \in 1..MaxId, updates \in RouteUpdates :
       LET r == update_listing(ds, listing_id, updates)
       IN /\ ds' = r.ds
          /\ ret' = mutation_route(r, "updated", 200)
          /\ lastOp' = [op |-> "admin_update_listing", arg |-> updates,
                        id |-> listing_id, raised |-> r.raised,
                        error |-> r.error]
  /\ RouteFrame

\* DELETE /api/admin/listings/<int:listing_id>
admin_delete_listing_response ==
  /\ \E listing_id \in 1..MaxId :
       LET r == delete_listing(ds, listing_id)
       IN /\ ds' = r.ds
          /\ ret' = mutation_route(r, "deleted", 200)
          /\ lastOp' = [op |-> "admin_delete_listing", arg |-> NoListing,
                        id |-> listing_id, raised |-> r.raised,
                        error |-> r.error]
  /\ RouteFrame

NextRoutes ==
  \/ admin_add_listing_response
  \/ add_listing_alias
  \/ admin_update_listing
  \/ admin_delete_listing_response

SpecRoutes == InitData /\ [][NextRoutes]_vars

\* ------------------------------------------------------ GET /api/search
\* request.args.get(name): None when the parameter is not given
NoArg == NullField
\* "if sector" / "if location": neither None nor ''
Given(arg) == arg # NoArg /\ arg # <<>>

\* r.get(field, ''): the default only for a missing key
get_or_empty(x) == IF x = AbsentField THEN <<>> ELSE x

\* "sector and r.get('sector', '').lower() != sector.lower()" is false
sector_passes(r, sector) ==
  Given(sector) => lower(get_or_empty(r.sector)) = lower(sector)

\* "location and location.lower() not in r.get('location', '').lower()" is
\* false
location_passes(r, location) ==
  Given(location) =>
    contains(lower(location), lower(get_or_empty(r.location)))

\* any(t.lower() in [x.lower() for x in r.get('tags', [])] for t in tags);
\* tags = <<>> stands for tags = None
tags_pass(r, tags) ==
  tags # <<>> =>
    \E i \in 1..Len(tags), j \in 1..Len(r.tags.items) :
       lower(tags[i]) = lower(r.tags.items[j].text)

\* the tests of one pass of the filter loop that raise: None.lower(), a
\* number's .lower(), iterating None; a test is reached only when the tests
\* before it did not "continue"
filter_raises(r, sector, location, tags) ==
  \/ Given(sector) /\ r.sector = NullField
  \/ /\ sector_passes(r, sector)
     /\ Given(location)
     /\ r.location = NullField
  \/ /\ sector_passes(r, sector)
     /\ location_passes(r, location)
     /\ tags # <<>>
     /\ \/ r.tags = NullTags
        \/ \E j \in 1..Len(r.tags.items) : r.tags.items[j].type # "str"

\* the three tests of the filter loop (routes.py 153-158) keep the result
\* whatever its letter case
filter_keeps_exact_case(r, sector, location, tags) ==
  /\ Given(sector) => get_or_empty(r.sector) = sector
  /\ location_passes(r, location)
  /\ tags_pass(r, tags)

\* the three tests of the filter loop (routes.py 153-158): TRUE when the
\* result is appended to filtered
filter_keeps(r, sector, location, tags) ==
  /\ sector_passes(r, sector)
  /\ location_passes(r, location)
  /\ tags_pass(r, tags)

\* results[:k] for k >= 0
py_slice(s, k) == SubSeq(s, 1, Min(k, Len(s)))

\* the filter loop over the ranked candidates, up to the first raise
filtered_of(results, sector, location, tags) ==
  SelectSeq(results,
            LAMBDA r : filter_keeps(r.listing, sector, location, tags))

\* the search endpoint after the query check (routes.py 139-161): rank
\* 2 * top_n candidates, filter, truncate
search(L, semantic, keyword, top_n, semantic_weight, sector, location, tags) ==
  LET results == hybrid_search(L, semantic, keyword, top_n * 2,
                               semantic_weight).results
  IN IF Given(sector) \/ Given(location) \/ tags # <<>>
       THEN IF \E p \in 1..Len(results) :
                 filter_raises(results[p].listing, sector, location, tags)
              THEN [raised |-> TRUE, results |-> <<>>]
              ELSE Results(py_slice(filtered_of(results, sector, location,
                                                tags), top_n))
       ELSE Results(py_slice(results, top_n))

\* ----------------------------------------------- one call on SearchService
\* The service is called once on a corpus it can hold: ids 1..n; the index
\* may hold fewer rows than there are listings (a listing added since the
\* last training) or more (one deleted since); the keyword matrix is rebuilt
\* by every mutation route and has one row per listing.
Corpora(Shapes) ==
  UNION {{[i \in 1..n |-> [f[i] EXCEPT !.id = Id("int", i)]] :
            f \in [1..n -> Shapes]} : n \in 1..MaxListings}
SectorShapes == {[Canon EXCEPT !.sector = x] : x \in {<<"f">>, <<"r">>}}
TextShapes ==
  {Canon,
   [Canon EXCEPT !.title = <<"a", "b">>, !.sector = <<"a">>],
   [Canon EXCEPT !.title = <<"A">>, !.tags = TagList(<<Tag(<<"a", "t">>)>>)]}
Queries == {<<"a">>, <<"A", " ">>, <<"b">>, <<" ">>}
IndexScores == UNION {[0..(m - 1) -> 0..MaxScore] : m \in 1..MaxIndexRows}

Call(method, semantic, keyword, listing_id, top_n, sector_filter, query) ==
  [method |-> method, semantic |-> semantic, keyword |-> keyword,
   listing_id |-> listing_id, top_n |-> top_n,
   sector_filter |-> sector_filter, query |-> query,
   semantic_weight |-> SEMANTIC_WEIGHT,
   sector |-> NoArg, location |-> NoArg, tags |-> <<>>]

\* semantic_weight, in tenths: keyword only, the default, semantic only
Weights == {0, SEMANTIC_WEIGHT, 10}

SearchInputs ==
  {[listings |-> L,
    call |-> [Call("hybrid_search", s, k, 0, top_n, FALSE, <<>>)
                EXCEPT !.semantic_weight = w]] :
     L \in Corpora({Canon}), s \in IndexScores,
     k \in UNION {[0..(n - 1) -> 0..MaxScore] : n \in 1..MaxListings},
     top_n \in 1..MaxTopN, w \in Weights}

RecommendInputs ==
  {[listings |-> L,
    call |-> Call("get_recommendations", s, <<>>, id, top_n, flt, <<>>)] :
     L \in Corpora(SectorShapes),
     s \in IndexScores,
     id \in 1..(MaxListings + 1), top_n \in 0..MaxTopN, flt \in BOOLEAN}

AutocompleteInputs ==
  {[listings |-> L,
    call |-> Call("autocomplete", <<>>, <<>>, 0, max_suggestions, FALSE, q)] :
     L \in Corpora(TextShapes), q \in Queries, max_suggestions \in 1..MaxTopN}

\* listings the filters tell apart by letter case, by a missing field and
\* by a null one
RouteShapes ==
  {Canon,
   [Canon EXCEPT !.sector = <<"A">>, !.location = <<"a", "B">>,
                 !.tags = TagList(<<Tag(<<"B">>)>>)],
   [Canon EXCEPT !.sector = <<"a">>, !.location = NullField]}
\* the sector, location and tags parameters of a request; tags after
\* split(',')
RouteFilters ==
  {<<NoArg, NoArg, <<>> >>, << <<>>, NoArg, <<>> >>,
   << <<"a">>, NoArg, <<>> >>, <<NoArg, <<"b">>, <<>> >>,
   <<NoArg, NoArg, << <<"x">>, <<"b">> >> >>,
   << <<"A">>, <<"A">>, << <<"b">> >> >>}

\* one listing more than twice the smallest top_n, so that the candidate
\* pool can leave a listing out
RouteCorpora ==
  UNION {{[i \in 1..n |-> [f[i] EXCEPT !.id = Id("int", i)]] :
            f \in [1..n -> RouteShapes]} : n \in 1..(MaxListings + 1)}

\* GET /api/search on a trained service: every listing has an index row
\* and a keyword row, and the query matches a listing's words or does not
SearchRouteInputs ==
  {[listings |-> x[1],
    call |-> [Call("search", [r \in 0..(Len(x[1]) - 1) |-> 0], x[2], 0, top_n,
                   FALSE, <<>>)
                EXCEPT !.sector = f[1], !.location = f[2], !.tags = f[3]]] :
     x \in UNION {{<<L, k>> : k \in [0..(Len(L) - 1) -> {0, MaxScore}]} :
                    L \in RouteCorpora},
     top_n \in 0..MaxTopN, f \in RouteFilters}

\* listings whose text differs by field: a location, several tags, a null
\* title, tags that cannot be joined
CorpusTextShapes ==
  RouteShapes
    \cup {[Canon EXCEPT !.title = NullField,
                        !.tags = TagList(<<Tag(<<"a">>), Tag(<<"B">>)>>)],
          [Canon EXCEPT !.tags = NullTags],
          [Canon EXCEPT !.tags = TagList(<<NumberItem>>)]}
CorpusTextInputs ==
  {[listings |-> L,
    call |-> Call("get_all_texts", <<>>, <<>>, 0, 0, FALSE, <<>>)] :
     L \in Corpora(CorpusTextShapes)}

\* five listings with ids 1..5, semantic scores 0.9 0.1 0.5 0.0 0.8 and
\* keyword scores 0.2 0.9 0.4 0.1 0.3 (in tenths), the default weight
ScenarioInput ==
  [listings |-> [i \in 1..5 |-> [Canon EXCEPT !.id = Id("int", i)]],
   call |-> Call("hybrid_search",
                 [r \in 0..4 |-> <<9, 1, 5, 0, 8>>[r + 1]],
                 [r \in 0..4 |-> <<2, 9, 4, 1, 3>>[r + 1]],
                 0, 5, FALSE, <<>>)]

\* the inputs the service can be called with: one keyword score per listing,
\* and a stored embedding is most similar to itself
QueryInputs ==
  {x \in SearchInputs : Cardinality(DOMAIN x.call.keyword) = Len(x.listings)}
    \cup {x \in RecommendInputs :
            \A r \in DOMAIN x.call.semantic :
              r = x.call.listing_id - 1 => x.call.semantic[r] = MaxScore}
    \cup AutocompleteInputs
    \cup {ScenarioInput}
    \cup CorpusTextInputs

InitQuery ==
  /\ Fresh
  /\ gcs_available = FALSE
  /\ s3_backup = FALSE
  /\ \/ \E x \in QueryInputs :
          /\ ds = load_data(x.listings)
          /\ call = x.call
     \/ \E x \in SearchRouteInputs :
          /\ ds = load_data(x.listings)
          /\ call = x.call
  /\ worker = [w \in Workers |-> IdleWorker]
  /\ lastOp = NoOp
  /\ ret = NoRet

QueryFrame ==
  /\ lastOp' = [NoOp EXCEPT !.op = call.method]
  /\ UNCHANGED <<ds, worker, call>>
  /\ UNCHANGED SystemVars

call_hybrid_search ==
  /\ call.method = "hybrid_search"
  /\ lastOp.op = "none"
  /\ ret' = hybrid_search(ds.listings, call.semantic, call.keyword, call.top_n,
                          call.semantic_weight)
  /\ QueryFrame

call_get_recommendations ==
  /\ call.method = "get_recommendations"
  /\ lastOp.op = "none"
  /\ ret' = get_recommendations_of(ds.listings, call.semantic, call.listing_id,
                                   call.top_n, call.sector_filter)
  /\ QueryFrame

call_autocomplete ==
  /\ call.method = "autocomplete"
  /\ lastOp.op = "none"
  /\ ret' = autocomplete_of(ds.listings, call.query, call.top_n)
  /\ QueryFrame

call_search ==
  /\ call.method = "search"
  /\ lastOp.op = "none"
  /\ ret' = search(ds.listings, call.semantic, call.keyword, call.top_n,
                   call.semantic_weight, call.sector, call.location, call.tags)
  /\ QueryFrame

\* the texts a training run reads from the store
call_get_all_texts ==
  /\ call.method = "get_all_texts"
  /\ lastOp.op = "none"
  /\ ret' = get_all_texts(ds)
  /\ QueryFrame

NextQuery ==
  \/ call_hybrid_search
  \/ call_get_recommendations
  \/ call_autocomplete
  \/ call_search
  \/ call_get_all_texts

SpecQuery == InitQuery /\ [][NextQuery]_vars

\* ------------------------------------------------------- specifications
InitSteps ==
  \/ initialize_system_data
  \/ initialize_system_load
  \/ initialize_system_train
  \/ initialize_system_ready

TrainSteps ==
  \/ initialize_models_lock
  \/ initialize_models_use
  \/ initialize_models_embed
  \/ initialize_models_index
  \/ initialize_models_fit
  \/ save_models_locally_tfidf
  \/ save_models_locally_faiss
  \/ save_models_locally_embeddings
  \/ save_models_locally_metadata

MutationSteps ==
  \/ admin_add_listing
  \/ admin_delete_listing
  \/ rebuild_tfidf_matrix

RequestSteps ==
  \E r \in Requests :
     \/ request_arrive(r)
     \/ hybrid_search_lock(r)
     \/ hybrid_search_semantic(r)
     \/ hybrid_search_keyword(r)
     \/ get_recommendations(r)
     \/ autocomplete(r)
     \/ request_done(r)

\* the process life cycle of the backend: start, load or train, retrain,
\* listing mutations, restart
Next ==
  \/ InitSteps
  \/ TrainSteps
  \/ initialize_models_upload
  \/ retrain
  \/ MutationSteps
  \/ Restart

Spec == Init /\ [][Next]_vars

\* serving: requests interleaved with retrains and listing mutations
NextServe ==
  \/ InitSteps
  \/ TrainSteps
  \/ initialize_models_upload
  \/ retrain
  \/ MutationSteps
  \/ RequestSteps

SpecServe == InitLocal /\ [][NextServe]_vars

\* start-up and the readiness gate with local storage: requests arrive at
\* any time of the process life cycle, the process may be restarted.
\* (/admin/retrain and the listing mutations do not touch system_ready;
\* they are interleaved with requests in SpecServe.)
NextGate ==
  \/ InitSteps
  \/ TrainSteps
  \/ RequestSteps
  \/ Restart

SpecGate == InitLocal /\ [][NextGate]_vars

\* the root application with S3 backup: train, back up, restore
NextBackup ==
  \/ InitSteps
  \/ TrainSteps
  \/ initialize_models_backup
  \/ retrain
  \/ restore_from_backup
  \/ restore_from_backup_load

SpecBackup == InitS3 /\ [][NextBackup]_vars

\* training and retraining with each kind of storage: local only, GCS
\* (backend), S3 backup (root application)
InitTrain ==
  /\ Fresh
  /\ ServiceIdle
  /\ gcs_available \in BOOLEAN
  /\ s3_backup \in BOOLEAN
  /\ ~(gcs_available /\ s3_backup)

NextTrain ==
  \/ InitSteps
  \/ TrainSteps
  \/ initialize_models_upload
  \/ initialize_models_backup
  \/ retrain

SpecTrain == InitTrain /\ [][NextTrain]_vars

\* ================================================================ claims

\* C1: when a retrain fails while embedding the corpus, building the vector
\* index or fitting the keyword model, the embeddings, the vector index and
\* the keyword model in memory are the ones that were there when the attempt
\* began.
C1_FailedTrainKeepsBundle ==
  (trainPc = "idle" /\ retrainResp = "error"
     /\ trainResult \in {"fail_embed", "fail_index", "fail_fit"})
  => /\ mem.embeddings = memBefore.embeddings
     /\ mem.faiss_index = memBefore.faiss_index
     /\ mem.tfidf_vectorizer = memBefore.tfidf_vectorizer

\* C2: a search that returns ranked results took its vector index and its
\* keyword model from the bundle that was current when the request started,
\* and its keyword matrix was produced by that same training run.
C2_SearchUsesOneBundle ==
  \A r \in Requests :
    (req[r].pc = "done" /\ req[r].kind = "search" /\ req[r].res = "ranked")
    => /\ req[r].sem = req[r].start.faiss_index
       /\ req[r].kwModel = req[r].start.tfidf_vectorizer
       /\ req[r].kwMatrix.run = req[r].kwModel.run
       /\ req[r].sem.run = req[r].kwModel.run

\* C3: while a train is in progress, a search or recommend request that has
\* reached the point where it reads the bundle can take its next step; it
\* does not have to wait for the train to finish.
C3_TrainNeverBlocksReads ==
  \A r \in Requests :
    (model_lock = "train" /\ req[r].pc \in {"s_sem", "s_kw", "rec"})
    => ENABLED (hybrid_search_semantic(r) \/ hybrid_search_keyword(r)
                  \/ get_recommendations(r))

\* C4: when load_models has reported success, the embeddings rows, the
\* vector-index size and the metadata corpus size in memory are equal.
C4_LoadRejectsMismatchedRows ==
  (initPc = "search" /\ models_loaded)
  => /\ mem.embeddings.n = mem.faiss_index.n
     /\ mem.faiss_index.n = mem.metadata.n

\* C5: when the remote download fails and a complete set of local artifact
\* files existed before the call, load_models succeeds from the local cache
\* (unless reading that cache itself fails).
C5_LoadFallsBackToLocalCache ==
  (lastLoad.called /\ lastLoad.remoteFailed /\ lastLoad.localBefore
     /\ ~lastLoad.readFault)
  => lastLoad.result

\* every request that found system_ready false has been answered 503 and
\* never reached the search service; every request that reached it found
\* system_ready true
C6_GateHolds ==
  \A r \in Requests :
    /\ (req[r].pc # "idle" /\ ~req[r].gate)
         => (req[r].pc = "done" /\ req[r].code = 503 /\ ~req[r].invoked)
    /\ req[r].invoked => req[r].gate

C7_PointerOnlyAfterCompleteBackup ==
  [][pointer' # pointer
       => \A a \in ArtSet : HasKey(s3', S3Key(a, pointer'))]_vars

\* C8: a restore_latest that fails leaves every file that existed in the
\* target directory before the call unchanged.
C8_FailedRestoreLeavesFiles ==
  [][(restore_from_backup /\ restoreResp' = "error")
       => \A f \in LocalNames : disk[f].st # "absent" => disk'[f] = disk[f]]_vars

\* C9: when every backup so far uploaded all its artifacts, at most
\* keep_versions versions are in the store, the most recent ones; no
\* artifact of an older version is left.
C9_RetentionKeepsNewest ==
  LET stamps == {o.stamp : o \in s3}
  IN (\A st \in stamps : \A a \in ArtSet : HasKey(s3, S3Key(a, st)))
     => Cardinality(stamps) <= keep_versions

\* C10: no canonical artifact file ever holds a partially written content.
C10_NoPartialCanonicalFile ==
  \A f \in FileSet : disk[f].st # "partial"

\* C18: the identifiers of the stored listings are pairwise distinct after
\* any sequence of add, update and delete calls on a collection whose
\* identifiers were pairwise distinct.
C18_IdsStayDistinct ==
  \A i, j \in 1..Len(ds.listings) :
    i # j => ~py_eq(ds.listings[i].id, ds.listings[j].id)

\* a title or sector that is not given, null, empty or only whitespace
FieldMissing(x) == x \in {AbsentField, NullField} \/ strip(x) = <<>>

\* C19: an add_listing whose title or sector is missing, empty or only
\* whitespace raises a validation error and changes nothing of the store;
\* an add_listing that returns has appended exactly its listing at the end.
C19_AddRequiresTitleAndSector ==
  [][lastOp'.op = "add"
       => /\ (FieldMissing(lastOp'.arg.title) \/ FieldMissing(lastOp'.arg.sector))
               => (lastOp'.raised /\ lastOp'.error = "ValueError" /\ ds' = ds)
          /\ ~lastOp'.raised
               => /\ Len(ds'.listings) = Len(ds.listings) + 1
                  /\ SubSeq(ds'.listings, 1, Len(ds.listings)) = ds.listings
                  /\ ds'.listings[Len(ds'.listings)].title = lastOp'.arg.title
                  /\ ds'.file = ds'.listings]_vars

\* tags that are not there, or a list whose items are all strings
TagsAreStrings(tags) ==
  \/ tags.t = "absent"
  \/ is_list(tags) /\ \A i \in 1..Len(tags.items) : tags.items[i].type = "str"

\* C20: an add_listing whose tags are neither absent nor a list of strings
\* raises a validation error before anything is appended or written, and
\* every stored listing can be turned into corpus text.
C20_AddRequiresStringTags ==
  /\ [](\A i \in 1..Len(ds.listings) : prepare_text_ok(ds.listings[i]))
  /\ [][(lastOp'.op = "add" /\ ~TagsAreStrings(lastOp'.arg.tags))
          => (lastOp'.raised /\ lastOp'.error = "ValueError" /\ ds' = ds)]_vars

\* the listing a thread's add_listing returned / the id its delete removed
Added(w) == worker[w].op = "add" /\ worker[w].pc = "done" /\ ~worker[w].raised
Deleted(w) == worker[w].op = "delete" /\ worker[w].pc = "done" /\ ~worker[w].raised
HoldsId(L, id) == \E i \in 1..Len(L) : py_int(L[i].id) = id

\* C11: once the concurrent mutations have all finished, no two listings
\* share an identifier, every listing whose add succeeded is in the
\* collection and in the file (unless a delete of its id succeeded), and no
\* listing with a successfully deleted id is left (unless an add produced
\* that id).
C11_MutationsSerialized ==
  (\A w \in Workers : worker[w].pc = "done")
  => /\ \A i, j \in 1..Len(ds.listings) :
          i # j => ~py_eq(ds.listings[i].id, ds.listings[j].id)
     /\ \A w \in Workers :
          (Added(w) /\ ~\E x \in Workers :
                          Deleted(x) /\ worker[x].id = py_int(worker[w].local[1].id))
          => /\ worker[w].local[1] \in SeqToSet(ds.listings)
             /\ worker[w].local[1] \in SeqToSet(ds.file)
     /\ \A w \in Workers :
          (Deleted(w) /\ ~\E x \in Workers :
                            Added(x) /\ py_int(worker[x].local[1].id) = worker[w].id)
          => /\ ~HoldsId(ds.listings, worker[w].id)
             /\ ~HoldsId(ds.file, worker[w].id)

\* C12: when a retrain completes successfully, the embeddings, the vector
\* index and the keyword matrix the search service uses all have as many
\* rows as the corpus that was trained (no listing mutation being half-way
\* through its endpoint at that moment); the same holds when the service
\* becomes ready after the initial training.
C12_TrainKeepsRowCounts ==
  [][/\ (trainCaller = "retrain" /\ trainPc # "idle" /\ trainPc' = "idle"
           /\ trainResult' = "ok" /\ mutPc' = "idle")
          => /\ mem'.embeddings.n = trainTexts
             /\ mem'.faiss_index.n = trainTexts
             /\ tfidf_matrix'.n = trainTexts
     /\ (~system_ready /\ system_ready' /\ ~models_loaded)
          => /\ mem'.embeddings.n = listings
             /\ mem'.faiss_index.n = listings
             /\ tfidf_matrix'.n = listings]_vars


\* the semantic score the ranking gives listing idx: its neighbor's score, 0
\* when the index returned no neighbor for it
RankedSemantic(neighbors, idx) ==
  IF np_where(neighbors, idx) = {} THEN 0
  ELSE neighbors[first(np_where(neighbors, idx))].score
RankedCombined(neighbors, keyword, idx) ==
  call.semantic_weight * RankedSemantic(neighbors, idx)
    + (10 - call.semantic_weight) * keyword[idx]
\* C13: hybrid_search returns the min(top_n, n) listings with the highest
\* combined scores in descending order, where a listing that is absent from
\* the neighbor set of the vector index counts with semantic score 0; it
\* returns them also when such a listing is among them.
C13_AbsentNeighborScoresZero ==
  lastOp.op = "hybrid_search"
  => LET L == ds.listings
         neighbors == faiss_search(call.semantic, Len(L))
         score(idx) == RankedCombined(neighbors, call.keyword, idx)
         row(r) == r.listing.id.v - 1
     IN /\ Len(ret.results) = Min(call.top_n, Len(L))
        /\ \A p \in 1..Len(ret.results) :
             /\ ret.results[p].semantic_score
                  = RankedSemantic(neighbors, row(ret.results[p]))
             /\ ret.results[p].similarity_score = score(row(ret.results[p]))
             /\ \A q \in 1..Len(ret.results) :
                  p < q => ret.results[p].similarity_score
                             >= ret.results[q].similarity_score
             /\ \A idx \in 0..(Len(L) - 1) :
                  \/ \E q \in 1..Len(ret.results) : row(ret.results[q]) = idx
                  \/ score(idx) <= ret.results[p].similarity_score


IsSource(l) == py_eq(l.id, Id("int", call.listing_id))
SourceSector ==
  LET at == first({i \in 1..Len(ds.listings) : IsSource(ds.listings[i])})
  IN py_get(ds.listings[at].sector)
\* C14: with the sector filter on, get_recommendations never returns the
\* source listing, and every listing it returns has the source's sector.
C14_RecommendExcludesSource ==
  (lastOp.op = "get_recommendations" /\ call.sector_filter /\ ~ret.raised)
  => \A p \in 1..Len(ret.results) :
       /\ ~IsSource(ret.results[p].listing)
       /\ py_get(ret.results[p].listing.sector) = SourceSector

Eligible(l) ==
  /\ ~IsSource(l)
  /\ call.sector_filter => py_get(l.sector) = SourceSector
\* C15: for a listing id the corpus holds, get_recommendations does not
\* raise, returns at most top_n listings, returns only eligible listings
\* (not the source, of the source's sector when the filter is on), and
\* returns no listing twice.
C15_RecommendAtMostTopN ==
  (lastOp.op = "get_recommendations"
     /\ \E i \in 1..Len(ds.listings) : IsSource(ds.listings[i]))
  => /\ ~ret.raised
     /\ Len(ret.results) <= call.top_n
     /\ \A p \in 1..Len(ret.results) : Eligible(ret.results[p].listing)
     /\ \A p, q \in 1..Len(ret.results) :
          p # q => ret.results[p].listing # ret.results[q].listing

\* C16: autocomplete called with max_suggestions >= 1 returns at most
\* max_suggestions suggestions.
C16_AutocompleteAtMostMax ==
  (lastOp.op = "autocomplete" /\ call.top_n >= 1)
  => Len(ret.results) <= call.top_n


\* an empty target directory
FreshDir == [f \in LocalNames |-> Absent]
\* C17: a restore_latest into a fresh directory that follows a backup_models
\* succeeds and leaves each of the four artifacts in that directory, equal
\* to the local file the backup read.
C17_BackupRestoreRoundTrip ==
  [][initialize_models_backup
       => /\ Restorable(s3', pointer', 4)
          /\ LET d == restore_latest(FreshDir, s3', pointer', 4, "get")
             IN \A i \in 1..4 :
                  /\ d[restore_files[i]].st # "absent"
                  /\ d[restore_files[i]] = disk[required_files[i]]]_vars


\* C21: an update_listing for an unknown id, with a different identifier, or
\* whose merged title or sector is missing, empty or blank raises; a call
\* that raises leaves the listings, the file and the hash as they were; a
\* call that returns has replaced exactly the addressed listing, in place,
\* by the merged record, and has written the file.
C21_UpdateValidatesAndKeepsPlace ==
  [][lastOp'.op = "update"
       => LET at == find_index(ds.listings, lastOp'.id)
              updates == lastOp'.arg
              merged == dict_update(ds.listings[at], updates)
          IN /\ (\/ at = 0
                 \/ (updates.id # NoId /\ ~py_eq(updates.id, ds.listings[at].id))
                 \/ FieldMissing(merged.title)
                 \/ FieldMissing(merged.sector))
                  => lastOp'.raised
             /\ lastOp'.raised
                  => /\ ds'.listings = ds.listings
                     /\ ds'.file = ds.file
                     /\ ds'.data_hash = ds.data_hash
             /\ ~lastOp'.raised
                  => /\ ds'.listings = [ds.listings EXCEPT ![at] = merged]
                     /\ ds'.file = ds'.listings]_vars


\* listing l carries the identifier a request for listing_id addresses
HasListingId(l, listing_id) == py_int(l.id) = listing_id
HashedContent(d) == d.data_hash[2]
RankingBy(score, n, top_n) ==
  SubSeq(sorted_desc(0..(n - 1), score), 1, Min(top_n, n))
\* C24: every result of hybrid_search reports the semantic and the keyword
\* score of its listing and, as similarity_score, semantic_weight * semantic
\* + (1 - semantic_weight) * keyword; with semantic_weight 0 the listings
\* returned are those of the ranking by keyword score alone, with
\* semantic_weight 1 those of the ranking by semantic score alone.
C24_CombinedScoreIsWeightedSum ==
  lastOp.op = "hybrid_search"
  => LET n == Len(ds.listings)
         w == call.semantic_weight
         neighbors == faiss_search(call.semantic, n)
         sem == [idx \in 0..(n - 1) |-> RankedSemantic(neighbors, idx)]
         rows == [p \in 1..Len(ret.results) |-> ret.results[p].listing.id.v - 1]
     IN /\ \A p \in 1..Len(ret.results) :
             /\ ret.results[p].semantic_score = sem[rows[p]]
             /\ ret.results[p].keyword_score = call.keyword[rows[p]]
             /\ ret.results[p].similarity_score
                  = w * ret.results[p].semantic_score
                      + (10 - w) * ret.results[p].keyword_score
        /\ w = 0 => rows = RankingBy(call.keyword, n, call.top_n)
        /\ w = 10 => rows = RankingBy(sem, n, call.top_n)


\* C25: the results of hybrid_search are in descending order of combined
\* score, the listing with the lower corpus index first among equal scores;
\* for the five-listing scenario the ranked ids are 1, 5, 3, 2, 4.
C25_RankedDescendingStable ==
  lastOp.op = "hybrid_search"
  => LET rows == [p \in 1..Len(ret.results) |-> ret.results[p].listing.id.v - 1]
         ids == [p \in 1..Len(ret.results) |-> ret.results[p].listing.id.v]
     IN /\ \A p, q \in 1..Len(ret.results) :
             p < q => \/ ret.results[p].similarity_score
                           > ret.results[q].similarity_score
                      \/ /\ ret.results[p].similarity_score
                              = ret.results[q].similarity_score
                         /\ rows[p] < rows[q]
        /\ call = ScenarioInput.call => ids = <<1, 5, 3, 2, 4>>

\* the scenario's five listings have been ranked
C25_Witness ==
  /\ lastOp.op = "hybrid_search"
  /\ call = ScenarioInput.call
  /\ Len(ret.results) = 5
  /\ ret.results[1].similarity_score = 62

\* what the three filters ask of a listing, for the filters the request names
SatisfiesFilters(listing) ==
  /\ Given(call.sector) =>
       /\ listing.sector \notin {AbsentField, NullField}
       /\ lower(listing.sector) = lower(call.sector)
  /\ Given(call.location) =>
       /\ listing.location \notin {AbsentField, NullField}
       /\ \E i \in 1..Len(listing.location) :
            \E j \in i..Len(listing.location) :
               lower(SubSeq(listing.location, i, j)) = lower(call.location)
  /\ call.tags # <<>> =>
       \E i \in 1..Len(call.tags) :
          \E j \in 1..Len(listing.tags.items) :
             lower(listing.tags.items[j].text) = lower(call.tags[i])

\* the 2 * top_n best listings of the ranking
CandidatePool ==
  hybrid_search(ds.listings, call.semantic, call.keyword, 2 * call.top_n,
                call.semantic_weight).results

\* C26: a search response holds, in ranking order, the first top_n of the
\* 2 * top_n best-ranked listings that satisfy every filter the request
\* names (sector equal, location contained, one of the tags present, all
\* regardless of letter case): every result satisfies the filters and at
\* most top_n results are returned
C26_SearchFiltersThenTruncates ==
  lastOp.op = "search" /\ ~ret.raised =>
    LET kept == SelectSeq(CandidatePool,
                          LAMBDA r : SatisfiesFilters(r.listing))
    IN /\ \A p \in 1..Len(ret.results) : SatisfiesFilters(ret.results[p].listing)
       /\ Len(ret.results) <= call.top_n
       /\ Len(ret.results) = Min(call.top_n, Len(kept))
       /\ \A p \in 1..Len(ret.results) : ret.results[p] = kept[p]

\* a request naming a sector in another letter case than the listing's: the
\* pool left a listing out, the filter dropped a candidate and kept one
C26_Witness ==
  /\ lastOp.op = "search"
  /\ ~ret.raised
  /\ Given(call.sector)
  /\ Len(ds.listings) > Len(CandidatePool)
  /\ Len(CandidatePool) > Len(ret.results)
  /\ Len(ret.results) = 1
  /\ ret.results[1].listing.sector # call.sector

\* the query as autocomplete compares it: lowercased, then trimmed
TrimmedQuery == strip(lower(call.query))

\* C27: every suggestion autocomplete returns has a lowercased text that
\* contains the lowercased, trimmed query, and a query that is blank after
\* trimming gets no suggestion
C27_SuggestionsContainQuery ==
  lastOp.op = "autocomplete" =>
    /\ TrimmedQuery = <<>> => ret.results = <<>>
    /\ \A p \in 1..Len(ret.results) :
         LET text == lower(ret.results[p].text)
         IN \E i \in 1..Len(text) : \E j \in i..Len(text) :
               SubSeq(text, i, j) = TrimmedQuery

\* a query in upper case with a trailing blank found a text in upper case,
\* and a text of the corpus that does not contain it was left out
C27_Witness ==
  /\ lastOp.op = "autocomplete"
  /\ call.query # TrimmedQuery
  /\ \E p \in 1..Len(ret.results) :
       ret.results[p].text # lower(ret.results[p].text)
  /\ \E i \in 1..Len(ds.listings) :
       \A p \in 1..Len(ret.results) :
          ret.results[p].text # ds.listings[i].sector

\* C29: the training texts DataService.get_all_texts returns are, listing by
\* listing, the texts SearchService._prepare_text builds for the keyword
\* matrix, and the one raises exactly when the other raises for a listing
C29_TrainingTextIsKeywordText ==
  lastOp.op = "get_all_texts" =>
    /\ ret.raised <=>
         \E i \in 1..Len(ds.listings) : prepare_text(ds.listings[i]).raised
    /\ ~ret.raised =>
         /\ Len(ret.results) = Len(ds.listings)
         /\ \A i \in 1..Len(ds.listings) :
              ret.results[i] = prepare_text(ds.listings[i]).text

\* texts of two listings were built, one of them from a null title, a
\* location and two tags
C29_Witness ==
  /\ lastOp.op = "get_all_texts"
  /\ ~ret.raised
  /\ Len(ret.results) = 2
  /\ ret.results[1] # ret.results[2]
  /\ \E i \in 1..2 :
       /\ ds.listings[i].title = NullField
       /\ Len(ds.listings[i].tags.items) = 2
  /\ \E i \in 1..2 : ds.listings[i].location \notin {AbsentField, NullField}

MutationRoutes == {"admin_add_listing", "add_listing_alias",
                   "admin_update_listing", "admin_delete_listing"}

\* C28: every response of an add, update or delete route with a success
\* status code carries retrain_required = true
C28_MutationAsksForRetrain ==
  (lastOp.op \in MutationRoutes /\ ret.code \in 200..299)
    => ret.retrain_required = "True"

\* an update went through: the response says "updated" and the store holds
\* a listing with the sector of the request
C28_Witness ==
  /\ lastOp.op = "admin_update_listing"
  /\ ret.code = 200
  /\ ret.status = "updated"
  /\ ~lastOp.raised
  /\ \E i \in 1..Len(ds.listings) : ds.listings[i].sector = lastOp.arg.sector

\* _save_models_locally has written its last file without an exception
SaveCompletes == trainPc = "save_meta" /\ trainPc' = "upload"

\* a ModelManager that holds no artifact, as after construction
EmptyBundle == [tfidf_vectorizer |-> NoArt, faiss_index |-> NoArt,
                embeddings |-> NoArt, metadata |-> NoArt]

EndsWhilePersisting ==
  /\ trainPc \in {"save_tfidf", "save_faiss", "save_emb", "save_meta", "upload"}
  /\ trainPc' = "idle"

\* embeddings, vector index and keyword model of the run, over all its texts
NewlyTrained(m) ==
  /\ m.embeddings = Art(trainRun, trainTexts, 0)
  /\ m.faiss_index = Art(trainRun, trainTexts, 0)
  /\ m.tfidf_vectorizer.run = trainRun
  /\ m.tfidf_vectorizer.n = trainTexts
  /\ m.tfidf_vectorizer.feat >= 1

\* C31: when initialize_models ends in or after the local save, whatever
\* failed, the embeddings, the vector index and the keyword model in memory
\* are those of this run; and once the local save is done, a failed upload,
\* backup or pruning does not make the train fail
C31_PersistFailureKeepsNewBundle ==
  [][EndsWhilePersisting =>
       /\ NewlyTrained(mem')
       /\ trainPc = "upload" =>
            /\ trainResult' = "ok"
            /\ trainCaller = "retrain" => retrainResp' = "success"
            /\ trainCaller = "init" => initPc' = "search"]_vars

\* a retrain returned normally although no file reached the bucket: the
\* bucket still holds the files of the run before
C31_Witness ==
  /\ gcs_available
  /\ trainPc = "idle"
  /\ trainResult = "ok"
  /\ retrainResp = "success"
  /\ NewlyTrained(mem)
  /\ trainRun >= 2
  /\ \A f \in FileSet : remote[f].run < trainRun

\* the newest version in the store
LatestVersion(store) ==
  CHOOSE st \in Versions(store) : \A q \in Versions(store) : q = st \/ StampLess(q, st)

\* C32: for every limit, list_backups(limit) returns at most limit versions,
\* newest first, and its first element is the latest backup in the store
C32_ListBackupsNewestFirst ==
  \A limit \in 1..(Cardinality(Versions(s3)) + 1) :
     LET backups == list_backups(s3, limit)
     IN /\ Len(backups) <= limit
        /\ \A i \in 1..(Len(backups) - 1) :
             StampLess(backups[i + 1].stamp, backups[i].stamp)
        /\ Versions(s3) # {} =>
             /\ backups # <<>>
             /\ backups[1].stamp = LatestVersion(s3)

\* POST /admin/retrain answers "success" with this step
RetrainCompletes ==
  /\ trainCaller = "retrain"
  /\ trainPc = "upload"
  /\ trainPc' = "idle"
  /\ retrainResp' = "success"

\* C33: when a retrain completes, the keyword matrix the search service
\* scores against is the transform of the current listings under the keyword
\* model that retrain fitted, the one that will vectorise the queries
C33_RetrainRealignsKeywordMatrix ==
  [][(RetrainCompletes /\ mutPc = "idle")
       => tfidf_matrix' = Art(mem'.tfidf_vectorizer.run, listings',
                              mem'.tfidf_vectorizer.feat)]_vars

\* C34: whenever a search request scores the listings against the keyword
\* matrix, the matrix has exactly one row per listing of the collection the
\* search service holds
C34_MatrixRowsMatchListings ==
  [][\A r \in Requests :
       (req[r].pc = "s_kw" /\ req'[r].pc = "done")
         => tfidf_matrix.n = listings]_vars

\* C35: a load_models call that does not return true leaves the in-memory
\* bundle as it was before the call, and one that returns true has read all
\* four artifacts from the files into memory
C35_FailedLoadKeepsBundle ==
  [][(initialize_system_load \/ restore_from_backup_load)
       => /\ ~lastLoad'.result => mem' = mem
          /\ lastLoad'.result =>
               /\ CompleteLocal(disk')
               /\ mem' = [tfidf_vectorizer |-> ArtOf(disk'[TFIDF_MODEL_PATH]),
                          faiss_index |-> ArtOf(disk'[FAISS_INDEX_PATH]),
                          embeddings |-> ArtOf(disk'[EMBEDDINGS_PATH]),
                          metadata |-> ArtOf(disk'[METADATA_PATH])]]_vars

\* the artifact the backup version named by the pointer holds for art
RestoredArt(art) == ArtOf(download_file(s3, S3Key(art, pointer)))

\* C36: when load_models succeeds after a successful restore_latest, the
\* keyword model, the vector index, the embeddings and the metadata in
\* memory are those of the restored backup version
C36_LoadAfterRestoreUsesBackup ==
  [][(restore_from_backup_load /\ lastLoad'.result)
       => /\ mem'.tfidf_vectorizer = RestoredArt("tfidf")
          /\ mem'.faiss_index = RestoredArt("faiss")
          /\ mem'.embeddings = RestoredArt("embeddings")
          /\ mem'.metadata = RestoredArt("metadata")]_vars


\* ------------------------------- retrain when the dataset file has changed
\* src/app.py: POST /api/retrain and the auto-retrain worker both run
\* "if data_service.has_changed(): texts = data_service.get_all_texts();
\* model_manager.initialize_models(texts)".  lastOp keeps which of the two
\* ran and what has_changed() told it, ret the texts handed to the trainer.
WatchedFiles ==
  Datasets \cup {<<[Canon EXCEPT !.title = <<"b">>]>>,
                 <<[Canon EXCEPT !.tags = NullTags]>>}

\* dataset.json is replaced on disk while the application runs
dataset_edited ==
  /\ \E L \in WatchedFiles :
       /\ L # ds.file
       /\ ds' = [ds EXCEPT !.file = L]
  /\ lastOp' = [NoOp EXCEPT !.op = "dataset_edited"]
  /\ DataFrame

RetrainFrame ==
  /\ UNCHANGED <<worker, call>>
  /\ UNCHANGED <<use_model, mem, model_lock, search_lock, disk, gcs_available,
                 remote, listings, tfidf_matrix, system_ready, initPc,
                 models_loaded, memBefore, trainResult, req, restarts,
                 lastLoad, mutPc>>
  /\ UNCHANGED S3Vars

\* the body both callers share; caller is "retrain" (the endpoint) or
\* "auto" (check_loop).  A has_changed() of False answers "no_change"; texts
\* that cannot be joined raise into the caller's except.
retrain_if_changed(caller) ==
  /\ trainPc = "idle"
  /\ LET r == has_changed(ds)
         texts == get_all_texts(r.ds)
     IN /\ ds' = r.ds
        /\ lastOp' = [NoOp EXCEPT !.op = caller, !.raised = r.changed /\ texts.raised,
                                  !.error = IF r.changed THEN "changed" ELSE "no_change"]
        /\ IF r.changed /\ ~texts.raised /\ runCount < MaxRuns
             THEN /\ ret' = texts
                  /\ trainPc' = "lock"
                  /\ trainCaller' = caller
                  /\ trainRun' = runCount + 1
                  /\ runCount' = runCount + 1
                  /\ trainTexts' = Len(texts.results)
                  /\ retrainResp' = "none"
             ELSE /\ ret' = IF r.changed THEN texts ELSE NoRet
                  /\ retrainResp' = IF ~r.changed THEN "no_change" ELSE "error"
                  /\ UNCHANGED <<trainPc, trainCaller, trainRun, runCount, trainTexts>>
  /\ RetrainFrame

app_retrain == retrain_if_changed("retrain")

check_loop == retrain_if_changed("auto")

NextWatch ==
  \/ dataset_edited
  \/ app_retrain
  \/ check_loop
  \/ TrainSteps
  \/ initialize_models_upload

SpecWatch == InitData /\ [][NextWatch]_vars

\* the retrain that has_changed() set off ends
WatchedTrainEnds == trainPc # "idle" /\ trainPc' = "idle"

\* C37: a retrain set off by has_changed() trains on the listings of the
\* changed file, the store holds those listings once it has succeeded, and
\* after a retrain that failed has_changed() still reports the change
C37_RetrainUsesChangedFile ==
  [][/\ (lastOp'.op \in {"retrain", "auto"} /\ trainPc = "idle" /\ trainPc' = "lock")
          => ret' = get_all_texts(load_data(ds.file))
     /\ (WatchedTrainEnds /\ trainResult' = "ok")
          => ds'.listings = ds'.file
     /\ (WatchedTrainEnds /\ trainResult' # "ok")
          => has_changed(ds').changed]_vars


\* the upload of this step returned True for some set of files sent
UploadReportedSuccess ==
  /\ initialize_models_upload
  /\ gcs_available
  /\ \E uploaded \in SUBSET FileSet :
       /\ remote' = upload_models(remote, disk, uploaded)
       /\ upload_models_result(disk, uploaded)

\* C38: when upload_models returned True, all four artifacts were uploaded,
\* so the remote store holds the four files just saved and no artifact of
\* another run
C38_UploadAllOrNothing ==
  [][UploadReportedSuccess
       => /\ \A f \in FileSet : remote'[f] = disk[f]
          /\ \A f, g \in FileSet : remote'[f].run = remote'[g].run]_vars


\* ------------------------------------------------ serving, with scheduling
\* Every thread that can take a step takes one: start-up and a training run
\* go on, a handler that is past its endpoint's entry goes on.  A thread
\* blocked in Lock.acquire() gets the lock when it is released again and
\* again (strong fairness on the steps that take a lock).  Nothing obliges
\* clients to send requests, retrains or listing mutations.
ServeFairness ==
  /\ WF_vars(InitSteps)
  /\ SF_vars(initialize_models_lock)
  /\ WF_vars(TrainSteps \/ initialize_models_upload)
  /\ SF_vars(rebuild_tfidf_matrix)
  /\ \A r \in Requests :
       /\ SF_vars(hybrid_search_lock(r))
       /\ SF_vars(hybrid_search_semantic(r))
       /\ SF_vars(hybrid_search_keyword(r))
       /\ SF_vars(get_recommendations(r))
       /\ WF_vars(autocomplete(r))
       /\ WF_vars(request_done(r))

SpecLive == InitLocal /\ [][NextServe]_vars /\ ServeFairness

\* model_lock is held exactly while one initialize_models is inside its
\* with-block; search_lock exactly while one hybrid_search is inside its own
LocksHeldByOne ==
  /\ model_lock = "train" <=> trainPc \notin {"idle", "lock"}
  /\ \A r \in Requests : search_lock = r <=> req[r].pc \in {"s_sem", "s_kw"}

\* a search enters a model_lock block only while it holds search_lock
SearchLockFirst ==
  \A r \in Requests :
    (req[r].pc \in {"s_sem", "s_kw"} /\ req'[r] # req[r])
      => (search_lock = r /\ model_lock = "free")

MutationStep == mutPc' # mutPc
MutationReturns == mutPc = "rebuild" /\ mutPc' = "idle"
\* a search, recommend or autocomplete request takes a step
RequestStep == req' # req

\* C40: a listing mutation leaves the embeddings and the vector index as
\* they are and rebuilds the keyword matrix, which has one row per listing
\* when the mutation request returns; a search, recommend or autocomplete
\* request never changes the stored listings
C40_MutationRebuildsMatrixOnly ==
  [][/\ MutationStep
          => /\ mem'.embeddings = mem.embeddings
             /\ mem'.faiss_index = mem.faiss_index
     /\ MutationReturns => tfidf_matrix'.n = listings'
     /\ RequestStep => listings' = listings]_vars

====
